---- MODULE Spec2Model ----
(***************************************************************************)
(* The background reconciliation subsystem of family_calendar:             *)
(*   - the in-memory task registry background_tasks and its lock           *)
(*     google_fetch_lock (src/main.py), read and claimed by the page view, *)
(*     the poll endpoint and the manual refresh endpoints;                 *)
(*   - the work units fetch_google_events_background and                   *)
(*     fetch_google_tasks_background (src/google_integration/routes.py);   *)
(*   - the SQLite stores calendar.db and chores.db.                        *)
(*                                                                         *)
(* Every `with google_fetch_lock:` block is one action: the lock is never  *)
(* held across two blocks, so the blocks are the atomic steps of the       *)
(* registry.  Every database function that runs in one SQLite transaction  *)
(* is one action.  A thread that has been started but has not yet entered  *)
(* its first lock block is a work unit at pc "spawned".                    *)
(*                                                                         *)
(* Time is counted in minutes (the code compares seconds; both sides of    *)
(* the comparison are scaled by 60).  The year of every request is 2025.   *)
(*                                                                         *)
(* The page view holds the lock once for the calendar key (View) and, in   *)
(* a later block, once for the chores key (ViewChores).                    *)
(*                                                                         *)
(* Specifications: Spec (the registry of a month under every calendar      *)
(* trigger), SpecUpdates and SpecErrors (the poll endpoint over both       *)
(* records), SpecEvents (the events store), SpecChores (the chores store). *)
(***************************************************************************)
EXTENDS Integers, Sequences, FiniteSets, TLC

\* ------------------------------------------------------------- bounds
\* Threads that can exist at once (work units, started or running).
MaxWorkers == 2
\* Clock ticks the model lets pass.
MaxTicks == 2
\* The length of the event lists a day view filters.
MaxDayEvents == 3
\* The colour index up to which the passes over the calendars are followed.
MaxColorIndex == 3
\* The length of the batches a store pass is given.
MaxBatch == 3

\* ---------------------------------------------------- program constants
\* Config.DEFAULTS["google"]["sync_interval_minutes"], the value that
\* get_config().get("google.sync_interval_minutes", 5) returns when
\* config.json does not set it.
sync_interval_minutes == 3

\* ------------------------------------------------------ the environment
Workers == 1..MaxWorkers
Years == {2025}
Months == {5}
\* The months a request URL can name (<int:month>): those of Months and one
\* that is no month.
RequestMonths == Months \cup {13}
EventIds == {"e1", "e2"}
\* The order in which the adapter returns the events (sorted by start).
EventSeq == <<"e1", "e2">>
CalendarIds == {"cal1", "cal2"}
\* organizer.email of a remote event: the calendar the event belongs to.
CalOf(e) == IF e = "e1" THEN "cal1" ELSE "cal2"
\* organizer.displayName of a remote event.
CalName(c) == IF c = "cal1" THEN "Work" ELSE "Home"

ChoreIds == {"x1", "x2"}
\* The versions of a chore the remote task list can hold: open tasks, the
\* first under either of two titles.
RemoteVersions(x) ==
    {[id |-> x, title |-> t, notes |-> "dishes", status |-> "needsAction",
      due |-> "none"] :
        t \in (IF x = "x1" THEN {"Ann", "Bob"} ELSE {"Ann"})}
\* The lists tasks_api.get_chores() can return.
ChoreLists ==
    {a \o b : a \in {<<>>} \cup {<<c>> : c \in RemoteVersions("x1")},
              b \in {<<>>} \cup {<<c>> : c \in RemoteVersions("x2")}}

\* A clock tick: more than half the sync interval, so that two ticks make a
\* record stale and one tick does not.
TickStep == (sync_interval_minutes \div 2) + 1
\* time.time() at process start: later than the interval after the epoch, so
\* that a missing last_update_time (default 0) is always stale.
StartTime == sync_interval_minutes + 1

\* task_id = f"calendar.{month}.{year}"
TaskId(month, year) == <<"calendar", month, year>>
\* task_id = "tasks" / chores_task_id = "tasks"
TasksId == <<"tasks">>
\* CalendarMonth.id = f"{month}.{year}"
MonthId(month, year) == <<month, year>>

\* DEFAULT_COLORS, the palette the DefaultColors table is filled with.
DEFAULT_COLORS ==
    <<"#3D5A80", "#8336E7", "#616042", "#CD3813", "#293241",
      "#9D4348", "#088745", "#68710A", "#A84710", "#EE1B49">>

VARIABLES
    background_tasks,   \* the registry: task id -> dict (src/main.py)
    now,                \* time.time(), in minutes
    pc,                 \* work unit -> its position
    unit,               \* work unit -> its arguments and local variables
    db_months,          \* table CalendarMonth: the set of month ids
    db_calendars,       \* table Calendar: calendar_id -> row
    color_index,        \* table ColorIndex, row 1: current_index
    db_events,          \* table CalendarEvent: event id -> row
    db_chores,          \* table Chores: chore id -> row
    resp,               \* the last response of the poll endpoint
    last_snapshot       \* month id -> the snapshot last reconciled for it

vars == <<background_tasks, now, pc, unit, db_months, db_calendars,
          color_index, db_events, db_chores, resp, last_snapshot>>

\* An empty dict, an empty table.
Empty == [k \in {} |-> k]
\* dict.get(key, default)
Get(d, key, default) == IF key \in DOMAIN d THEN d[key] ELSE default
\* d[key] = value
Put(d, key, value) == (key :> value) @@ d

NoUnit == [kind |-> "none"]
NoResp == [calendar_status |-> "none"]
\* The trigger that started a thread and the registry status it saw, kept
\* until the thread enters its first lock block.
NoVia == [by |-> "none", saw |-> "none"]

Idle == {w \in Workers : pc[w] = "idle"}
\* threading.Thread(...).start(): the new thread takes the first free slot.
FreeWorker == CHOOSE w \in Idle : \A v \in Idle : w <= v

StatusOf(task_id) ==
    IF task_id \in DOMAIN background_tasks
    THEN background_tasks[task_id]["status"] ELSE "absent"

\* ------------------------------------------------------- the work units
\* A work unit as its thread starts: the arguments, and the local variables
\* of fetch_google_events_background before their first assignment.
EventsUnit(month, year, via) ==
    [kind |-> "events", task_id |-> TaskId(month, year), month |-> month,
     year |-> year, via |-> via, data |-> {}, remote |-> {}, again |-> FALSE,
     events_to_add |-> <<>>, calendars_changed |-> FALSE, deleted |-> FALSE,
     db_changes |-> FALSE, events_changed |-> FALSE]

\* A work unit past its try block: only task_id is read from here on.
Leaving(u) == [kind |-> u.kind, task_id |-> u.task_id, via |-> NoVia]

\* A check of the running status that never finds the task running.
NeverRunning(task_id) == FALSE

\* Lines 21-24 and 80-83: skip when the task runs, else (re)create its record.
AlreadyRunning(task_id) ==
    task_id \in DOMAIN background_tasks
    /\ background_tasks[task_id]["status"] = "running"

ClaimRunning(w, first_pc, started) ==
    LET task_id == unit[w].task_id IN
    IF AlreadyRunning(task_id)
    THEN /\ pc' = [pc EXCEPT ![w] = "idle"]
         /\ unit' = [unit EXCEPT ![w] = NoUnit]
         /\ UNCHANGED background_tasks
    ELSE /\ background_tasks' =
                Put(background_tasks, task_id,
                    [status |-> "running", updated |-> FALSE])
         /\ pc' = [pc EXCEPT ![w] = first_pc]
         /\ unit' = [unit EXCEPT ![w] = started]

\* fetch_google_events_background, lines 19-24.
ClaimEvents(w) ==
    /\ pc[w] = "spawned"
    /\ unit[w].kind = "events"
    /\ ClaimRunning(w, "add_month", [unit[w] EXCEPT !.via = NoVia])
    /\ UNCHANGED <<now, db_months, db_calendars, color_index, db_events,
                   db_chores, resp, last_snapshot>>

\* calendar_db.add_month(current_calendar_month): INSERT OR REPLACE.
AddMonth(w) ==
    /\ pc[w] = "add_month"
    /\ db_months' = db_months \cup {MonthId(unit[w].month, unit[w].year)}
    /\ pc' = [pc EXCEPT ![w] = "fetch"]
    /\ UNCHANGED <<background_tasks, now, unit, db_calendars, color_index,
                   db_events, db_chores, resp, last_snapshot>>

\* get_events_current_month: the events of every calendar whose listing
\* succeeds; a calendar whose listing fails (break) contributes nothing more.
GetEventsCurrentMonth(remote, failed) ==
    {e \in remote : CalOf(e) \notin failed}

\* fetch_and_process_google_events: [] when authentication or the transport
\* fails, else the processed events of get_events_current_month.
FetchAndProcessGoogleEvents(remote, auth_ok, failed) ==
    IF ~auth_ok THEN {} ELSE GetEventsCurrentMonth(remote, failed)

\* A pass that reconciles whatever the fetch returned, the empty list too.
ReconcileAlways(data) == TRUE

\* pycalendar.monthrange(year, month) in get_events_current_month raises for
\* a month outside 1..12; fetch_and_process_google_events catches the
\* exception and returns [].
ValidMonth(month) == 1 <= month /\ month <= 12

\* Line 35, `if processed_google_events_data:`: reconcile only a non-empty
\* snapshot.
HasData(data) == data # {}

\* Lines 30 and 35/50: the fetch, and the branch on its result.
\* remote: the events the remote source holds for the month at this instant.
FetchEvents(w, remote, auth_ok, failed) ==
    /\ pc[w] = "fetch"
    /\ LET data == IF ValidMonth(unit[w].month)
                   THEN FetchAndProcessGoogleEvents(remote, auth_ok, failed)
                   ELSE {}
           month_id == MonthId(unit[w].month, unit[w].year)
       IN
       /\ unit' = [unit EXCEPT
                     ![w].data = data, ![w].remote = remote,
                     ![w].again = month_id \in DOMAIN last_snapshot
                                  /\ last_snapshot[month_id] = data,
                     ![w].events_changed = FALSE]
       /\ pc' = [pc EXCEPT ![w] = IF HasData(data) THEN "calendars" ELSE "flags"]
    /\ UNCHANGED <<background_tasks, now, db_months, db_calendars,
                   color_index, db_events, db_chores, resp, last_snapshot>>

\* get_next_color: the colour at current_index modulo the palette size.
NextColor(index) == DEFAULT_COLORS[(index % Len(DEFAULT_COLORS)) + 1]

\* The calendars add_calendar is called for without a colour.
NewCalendars == {"cal1", "cal2", "cal3", "cal4"}

\* add_calendar for a calendar without colour, up to the end of the SELECTs
\* of get_next_color (lines 398-412).  The connection of db_connection is
\* opened per call and in sqlite3's default mode a SELECT runs outside any
\* transaction, so the index read here is not protected until the UPDATE.
GetNextColorSelect(w, calendar_id) ==
    /\ pc[w] = "idle"
    /\ calendar_id \notin DOMAIN db_calendars
    /\ \A v \in Workers :
          unit[v].kind = "add_calendar" => unit[v].calendar_id # calendar_id
    /\ pc' = [pc EXCEPT ![w] = "color_write"]
    /\ unit' = [unit EXCEPT ![w] =
                  [kind |-> "add_calendar", calendar_id |-> calendar_id,
                   current_index |-> color_index,
                   color_hex |-> NextColor(color_index)]]
    /\ UNCHANGED <<background_tasks, now, db_months, db_calendars,
                   color_index, db_events, db_chores, resp, last_snapshot>>

\* get_next_color lines 415-421 (UPDATE ColorIndex with current_index + 1),
\* add_calendar's INSERT OR REPLACE (lines 158-164) and the commit of
\* db_connection: one transaction.
AddCalendarWrite(w) ==
    /\ pc[w] = "color_write"
    /\ color_index' = unit[w].current_index + 1
    /\ db_calendars' = Put(db_calendars, unit[w].calendar_id,
                           [name |-> CalName(unit[w].calendar_id),
                            display_name |-> CalName(unit[w].calendar_id),
                            color |-> unit[w].color_hex])
    /\ pc' = [pc EXCEPT ![w] = "idle"]
    /\ unit' = [unit EXCEPT ![w] = NoUnit]
    /\ UNCHANGED <<background_tasks, now, db_months, db_events, db_chores,
                   resp, last_snapshot>>

\* The events of a snapshot in the order the adapter returns them.
RECURSIVE Ordered(_, _)
Ordered(seq, data) ==
    IF seq = <<>> THEN <<>>
    ELSE IF Head(seq) \in data
         THEN <<Head(seq)>> \o Ordered(Tail(seq), data)
         ELSE Ordered(Tail(seq), data)

\* get_calendar_display_name: the alias of the calendar, else its name.
GetCalendarDisplayName(aliases, calendar_id, original_name) ==
    Get(aliases, calendar_id, original_name)

\* A store call of one pass that fails with sqlite3.Error: db_connection
\* catches the error, closes the connection without a commit and returns [].
\* op is the call ("get_calendar" of line 90, "add_calendar" of line 113,
\* "refetch" of line 115), at the position of the event in the batch.
NoFault == [op |-> "none", at |-> 0]

\* A Calendar object built without a colour (color_hex = None).
NoColor == "none"

\* add_calendar: a colour from get_next_color when the object has none, then
\* INSERT OR REPLACE; st = [cals, index, ...].
AddCalendar(st, calendar_id, calendar) ==
    IF calendar.color = NoColor
    THEN [st EXCEPT
            !.cals = Put(@, calendar_id,
                         [calendar EXCEPT !.color = NextColor(st.index)]),
            !.index = @ + 1]
    ELSE [st EXCEPT !.cals = Put(@, calendar_id, calendar)]

\* create_calendar_events_from_google_data, the loop of lines 86-135 over the
\* events from position at on: st = [cals, index, changed, events, written],
\* written being the calendars add_calendar has stored a row for.
RECURSIVE ResolveEach(_, _, _, _, _)
ResolveEach(data, at, aliases, fault, st) ==
    IF at > Len(data) THEN st
    ELSE
      LET event_data == data[at]
          google_cal_id == event_data.calendar_id
          google_cal_summary == event_data.calendar_name
          Fails(op) == fault = [op |-> op, at |-> at]
          found == ~Fails("get_calendar") /\ google_cal_id \in DOMAIN st.cals
          display_name ==
              GetCalendarDisplayName(aliases, google_cal_id, google_cal_summary)
          differs ==
              found /\ (st.cals[google_cal_id].name # google_cal_summary
                        \/ st.cals[google_cal_id].display_name # display_name)
          calendar_needs_db_update == ~found \/ differs
          calendar_obj ==
              [name |-> google_cal_summary, display_name |-> display_name,
               color |-> IF found THEN st.cals[google_cal_id].color ELSE NoColor]
          st1 ==
              IF calendar_needs_db_update /\ ~Fails("add_calendar")
              THEN [AddCalendar(st, google_cal_id, calendar_obj) EXCEPT
                      !.written = @ \cup {google_cal_id}]
              ELSE st
          st2 == [st1 EXCEPT !.changed = @ \/ calendar_needs_db_update]
          skipped ==
              calendar_needs_db_update
              /\ (Fails("refetch") \/ google_cal_id \notin DOMAIN st2.cals)
      IN ResolveEach(data, at + 1, aliases, fault,
                     IF skipped THEN st2
                     ELSE [st2 EXCEPT !.events = Append(@, event_data.id)])

\* The pass over the events of a snapshot whose calendars carry their fixed
\* names, with no alias configured and no failing store call.
ResolveCalendars(events, st) ==
    ResolveEach([i \in DOMAIN events |->
                    [id |-> events[i], calendar_id |-> CalOf(events[i]),
                     calendar_name |-> CalName(CalOf(events[i]))]],
                1, Empty, NoFault,
                [cals |-> st.cals, index |-> st.index, changed |-> st.changed,
                 events |-> st.events, written |-> {}])

\* A reconciliation of the calendars that hands over to the upsert at once,
\* so that the stored events of the month are never cleaned up.
CreateCalendarEventsThenUpsert(w) ==
    /\ pc[w] = "calendars"
    /\ LET r == ResolveCalendars(Ordered(EventSeq, unit[w].data),
                                 [cals |-> db_calendars, index |-> color_index,
                                  changed |-> FALSE, events |-> <<>>])
       IN /\ db_calendars' = r.cals
          /\ color_index' = r.index
          /\ unit' = [unit EXCEPT ![w].calendars_changed = r.changed,
                                  ![w].events_to_add = r.events]
    /\ pc' = [pc EXCEPT ![w] = "upsert"]
    /\ UNCHANGED <<background_tasks, now, db_months, db_events, db_chores, resp, last_snapshot>>

\* create_calendar_events_from_google_data (lines 36-38).
CreateCalendarEvents(w) ==
    /\ pc[w] = "calendars"
    /\ LET r == ResolveCalendars(Ordered(EventSeq, unit[w].data),
                                 [cals |-> db_calendars, index |-> color_index,
                                  changed |-> FALSE, events |-> <<>>])
       IN /\ db_calendars' = r.cals
          /\ color_index' = r.index
          /\ unit' = [unit EXCEPT ![w].calendars_changed = r.changed,
                                  ![w].events_to_add = r.events]
    /\ pc' = [pc EXCEPT ![w] = "cleanup"]
    /\ UNCHANGED <<background_tasks, now, db_months, db_events, db_chores, resp, last_snapshot>>

\* cleanup_deleted_events: the ids stored under the month and absent from
\* the snapshot.
EventsToDelete(month_id, current_google_event_ids) ==
    {e \in DOMAIN db_events : db_events[e].month_id = month_id}
        \ current_google_event_ids

\* cleanup_deleted_events (lines 41-42), then the branch of line 44.
CleanupDeletedEvents(w) ==
    /\ pc[w] = "cleanup"
    /\ LET events_to_delete ==
               EventsToDelete(MonthId(unit[w].month, unit[w].year), unit[w].data)
           deleted == events_to_delete # {}
       IN /\ db_events' = [e \in DOMAIN db_events \ events_to_delete |-> db_events[e]]
          /\ IF unit[w].events_to_add # <<>>
             THEN /\ unit' = [unit EXCEPT ![w].deleted = deleted]
                  /\ pc' = [pc EXCEPT ![w] = "upsert"]
                  /\ UNCHANGED last_snapshot
             ELSE /\ unit' = [unit EXCEPT
                               ![w].deleted = deleted,
                               ![w].events_changed =
                                   unit[w].calendars_changed \/ deleted]
                  /\ pc' = [pc EXCEPT ![w] = "flags"]
                  /\ last_snapshot' =
                        Put(last_snapshot,
                            MonthId(unit[w].month, unit[w].year), unit[w].data)
    /\ UNCHANGED <<background_tasks, now, db_months, db_calendars,
                   color_index, db_chores, resp>>

\* A check of the processed ids that never finds an id.
NeverProcessed(st, id) == FALSE

\* add_events, lines 19-20: the id has been written earlier in the batch.
Processed(st, id) == id \in st.processed_ids

\* add_events, the loop of lines 18-60 from position at on.  events are the
\* CalendarEvent objects (id, calendar, title); faults are the positions
\* whose INSERT raises sqlite3.Error, which the except of lines 58-60 answers
\* with continue; st = [rows, changes_made, processed_ids, written], written
\* being the positions whose INSERT OR REPLACE was executed.  The Calendar
\* objects come from get_calendar with their colour, so lines 25-30 add none.
RECURSIVE AddEventsEach(_, _, _, _, _)
AddEventsEach(events, at, month_id, faults, st) ==
    IF at > Len(events) THEN st
    ELSE
      LET event == events[at] IN
      IF Processed(st, event.id) \/ at \in faults
      THEN AddEventsEach(events, at + 1, month_id, faults, st)
      ELSE AddEventsEach(events, at + 1, month_id, faults,
               [rows |-> Put(st.rows, event.id,
                             [calendar_id |-> event.calendar_id,
                              month_id |-> month_id, title |-> event.title]),
                changes_made |-> TRUE,
                processed_ids |-> st.processed_ids \cup {event.id},
                written |-> Append(st.written, at)])

\* An upsert that stores the first event of the list and no other.
UpsertFirst(events, month_id, st) ==
    IF events = <<>> THEN st
    ELSE [rows |-> Put(st.rows, Head(events),
                       [calendar_id |-> CalOf(Head(events)),
                        month_id |-> month_id, title |-> "title"]),
          changes_made |-> TRUE,
          processed_ids |-> st.processed_ids \cup {Head(events)}]

\* An upsert that keeps the row an id already has (INSERT OR IGNORE).
UpsertIgnoring(events, month_id, st) ==
    LET ids == {events[i] : i \in DOMAIN events} IN
    [rows |-> [e \in DOMAIN st.rows \cup ids |->
                 IF e \in DOMAIN st.rows THEN st.rows[e]
                 ELSE [calendar_id |-> CalOf(e), month_id |-> month_id,
                       title |-> "title"]],
     changes_made |-> events # <<>>,
     processed_ids |-> st.processed_ids \cup ids]

\* add_events on the events of a snapshot, each under the one title it has
\* there, with no failing row; st = [rows, changes_made, processed_ids].
UpsertEvents(events, month_id, st) ==
    LET r == AddEventsEach(
                 [i \in DOMAIN events |->
                     [id |-> events[i], calendar_id |-> CalOf(events[i]),
                      title |-> "title"]],
                 1, month_id, {},
                 [rows |-> st.rows, changes_made |-> st.changes_made,
                  processed_ids |-> st.processed_ids, written |-> <<>>])
    IN [rows |-> r.rows, changes_made |-> r.changes_made,
        processed_ids |-> r.processed_ids]

\* An add_events that reports no change whatever it wrote.
NothingWritten(st) == FALSE

\* add_events(events).changes_made
ChangesMade(st) == st.changes_made

\* add_events (line 45) and line 46.
AddEvents(w) ==
    /\ pc[w] = "upsert"
    /\ LET r == UpsertEvents(unit[w].events_to_add,
                             MonthId(unit[w].month, unit[w].year),
                             [rows |-> db_events, changes_made |-> FALSE,
                              processed_ids |-> {}])
           db_changes == ChangesMade(r)
       IN /\ db_events' = r.rows
          /\ unit' = [unit EXCEPT
                        ![w].db_changes = db_changes,
                        ![w].events_to_add = <<>>,
                        ![w].events_changed =
                            unit[w].calendars_changed \/ db_changes
                                \/ unit[w].deleted]
    /\ last_snapshot' =
          Put(last_snapshot, MonthId(unit[w].month, unit[w].year), unit[w].data)
    /\ pc' = [pc EXCEPT ![w] = "flags"]
    /\ UNCHANGED <<background_tasks, now, db_months, db_calendars,
                   color_index, db_chores, resp>>

\* Lines 53-57: record the outcome; the status stays "running".
UpdateEventsStatus(w) ==
    /\ pc[w] = "flags"
    /\ unit[w].kind = "events"
    /\ LET task_id == unit[w].task_id IN
       background_tasks' =
         [background_tasks EXCEPT ![task_id] =
            Put(Put(Put(@, "updated", unit[w].events_changed),
                    "events_changed", unit[w].events_changed),
                "last_update_time", now)]
    /\ pc' = [pc EXCEPT ![w] = "finally"]
    /\ unit' = [unit EXCEPT ![w] = Leaving(@)]
    /\ UNCHANGED <<now, db_months, db_calendars, color_index,
                   db_events, db_chores, resp, last_snapshot>>

\* An exception raised inside the try block of an events work unit.
RaiseEvents(w) ==
    /\ pc[w] \in {"add_month", "fetch", "calendars", "cleanup", "upsert"}
    /\ pc' = [pc EXCEPT ![w] = "except"]
    /\ unit' = [unit EXCEPT ![w] = Leaving(@)]
    /\ UNCHANGED <<background_tasks, now, db_months, db_calendars,
                   color_index, db_events, db_chores, resp, last_snapshot>>

\* An except block that records the error and leaves the flags as they are.
ErrorKeepingFlags(rec, flag, stamp) == Put(rec, "status", "error")

\* The record an except block leaves (lines 62-66).
ErrorRecord(rec, flag, stamp) ==
    LET r == Put(Put(Put(rec, "status", "error"), "updated", FALSE), flag, FALSE)
    IN IF stamp THEN Put(r, "last_update_time", now) ELSE r

\* Lines 59-66: the except block of fetch_google_events_background.
ExceptEvents(w) ==
    /\ pc[w] = "except"
    /\ unit[w].kind = "events"
    /\ background_tasks' =
         [background_tasks EXCEPT ![unit[w].task_id] =
            ErrorRecord(@, "events_changed", TRUE)]
    /\ pc' = [pc EXCEPT ![w] = "finally"]
    /\ UNCHANGED <<now, unit, db_months, db_calendars, color_index,
                   db_events, db_chores, resp, last_snapshot>>

\* The finally block (lines 67-70 and 122-125) of both work units.
FinalStatus(rec) ==
    IF rec["status"] # "error" THEN Put(rec, "status", "complete") ELSE rec

Finally(w) ==
    /\ pc[w] = "finally"
    /\ background_tasks' =
         [background_tasks EXCEPT ![unit[w].task_id] = FinalStatus(@)]
    /\ pc' = [pc EXCEPT ![w] = "idle"]
    /\ unit' = [unit EXCEPT ![w] = NoUnit]
    /\ UNCHANGED <<now, db_months, db_calendars, color_index, db_events,
                   db_chores, resp, last_snapshot>>

\* ---------------------------------------------------- the chores work unit
\* threaded: the call runs in a thread of its own (threading.Thread), not in
\* the thread of the request that makes it.
TasksUnit(via, threaded) ==
    [kind |-> "tasks", task_id |-> TasksId, via |-> via, threaded |-> threaded]

\* The ids whose stored status is 'invisible'.
Invisible == {x \in DOMAIN db_chores : db_chores[x].status = "invisible"}

\* A chores pass at its first statement: shielded are the ids that are
\* invisible as the pass begins.
ChoresPass(kind, task_id, threaded) ==
    [kind |-> kind, task_id |-> task_id, via |-> NoVia, shielded |-> Invisible,
     to_write |-> <<>>, i |-> 1, chores_changed |-> FALSE,
     threaded |-> threaded]

\* fetch_google_tasks_background, lines 78-83.
ClaimTasks(w) ==
    /\ pc[w] = "spawned"
    /\ unit[w].kind = "tasks"
    /\ ClaimRunning(w, "get_chores", ChoresPass("tasks", TasksId, unit[w].threaded))
    /\ UNCHANGED <<now, db_months, db_calendars, color_index, db_events,
                   db_chores, resp, last_snapshot>>

\* create_chores_from_google_data(tasks_api.get_chores()), lines 87-88 and
\* 145-146: the remote list, [] when the remote call fails.
GetChores(w, chores_from_google) ==
    /\ pc[w] = "get_chores"
    /\ IF unit[w].kind = "tasks"
       THEN /\ pc' = [pc EXCEPT ![w] = "read_db"]
            /\ unit' = [unit EXCEPT ![w].to_write = chores_from_google]
       ELSE IF chores_from_google = <<>>
            THEN /\ pc' = [pc EXCEPT ![w] = "idle"]
                 /\ unit' = [unit EXCEPT ![w] = NoUnit]
            ELSE /\ pc' = [pc EXCEPT ![w] = "select"]
                 /\ unit' = [unit EXCEPT ![w].to_write = chores_from_google]
    /\ UNCHANGED <<background_tasks, now, db_months, db_calendars,
                   color_index, db_events, db_chores, resp, last_snapshot>>

\* _make_chores_comparable on one chore: the tuple (id, title, notes, status).
MakeComparable(id, c) == <<id, c.title, c.notes, c.status>>

\* A comparison that suppresses no chore.
NeverSkipped(existing, id) == FALSE

\* Line 100: a stored chore marked 'invisible' is skipped.
SkipInvisible(existing, id) ==
    id \in DOMAIN existing /\ existing[id].status = "invisible"

\* Lines 97-106: the chores staged for the write.
RECURSIVE StageChores(_, _)
StageChores(chores_from_google, existing) ==
    IF chores_from_google = <<>> THEN <<>>
    ELSE
      LET chore_google == Head(chores_from_google)
          rest == StageChores(Tail(chores_from_google), existing)
      IN IF SkipInvisible(existing, chore_google.id)
         THEN rest
         ELSE IF chore_google.id \notin DOMAIN existing
                 \/ MakeComparable(chore_google.id, chore_google)
                      # MakeComparable(chore_google.id, existing[chore_google.id])
              THEN <<chore_google>> \o rest
              ELSE rest

\* Lines 91-108: read every stored chore, stage the differing ones.
CompareChores(w) ==
    /\ pc[w] = "read_db"
    /\ LET staged == StageChores(unit[w].to_write, db_chores) IN
       /\ unit' = [unit EXCEPT ![w].to_write = staged,
                               ![w].chores_changed = staged # <<>>]
       /\ pc' = [pc EXCEPT ![w] = IF staged # <<>> THEN "select" ELSE "flags"]
    /\ UNCHANGED <<background_tasks, now, db_months, db_calendars,
                   color_index, db_events, db_chores, resp, last_snapshot>>

\* The row add_chores writes for a chore.
ChoreRow(chore) ==
    [title |-> chore.title, notes |-> chore.notes, status |-> chore.status,
     due |-> chore.due]

\* add_chores, line 62: write unless the current status is 'invisible'.
MayWrite(rows, id) ==
    ~(id \in DOMAIN rows /\ rows[id].status = "invisible")

\* add_chores, lines 55-66, inside the write transaction.
RECURSIVE WriteChores(_, _)
WriteChores(chores, rows) ==
    IF chores = <<>> THEN rows
    ELSE LET chore == Head(chores) IN
         WriteChores(Tail(chores),
                     IF MayWrite(rows, chore.id)
                     THEN Put(rows, chore.id, ChoreRow(chore))
                     ELSE rows)

\* Where a chores pass goes when add_chores returns.
AfterAddChores(w) == IF unit[w].kind = "tasks" THEN "flags" ELSE "idle"

\* add_chores, lines 57-62, for a row before the first INSERT: sqlite3 opens
\* the transaction at the first INSERT, so this SELECT is a statement of its
\* own and another connection can write between it and the INSERT.
AddChoresSelect(w) ==
    /\ pc[w] = "select"
    /\ LET chore == unit[w].to_write[unit[w].i] IN
       IF MayWrite(db_chores, chore.id)
       THEN /\ pc' = [pc EXCEPT ![w] = "write"]
            /\ UNCHANGED unit
       ELSE IF unit[w].i < Len(unit[w].to_write)
            THEN /\ unit' = [unit EXCEPT ![w].i = @ + 1]
                 /\ UNCHANGED pc
            ELSE /\ pc' = [pc EXCEPT ![w] = AfterAddChores(w)]
                 /\ unit' = [unit EXCEPT ![w] =
                               IF unit[w].kind = "tasks" THEN @ ELSE NoUnit]
    /\ UNCHANGED <<background_tasks, now, db_months, db_calendars,
                   color_index, db_events, db_chores, resp, last_snapshot>>

\* add_chores, lines 63-68: the INSERT of the row just checked, then the
\* remaining rows (check and INSERT inside the transaction), then the commit.
\* Other writers wait from the first INSERT to the commit, and readers see
\* none of the writes before the commit: the transaction is one step.
AddChoresWrite(w) ==
    /\ pc[w] = "write"
    /\ LET chores == unit[w].to_write
           i == unit[w].i
           first == Put(db_chores, chores[i].id, ChoreRow(chores[i]))
       IN db_chores' = WriteChores(SubSeq(chores, i + 1, Len(chores)), first)
    /\ pc' = [pc EXCEPT ![w] = AfterAddChores(w)]
    /\ unit' = [unit EXCEPT ![w] = IF unit[w].kind = "tasks" THEN @ ELSE NoUnit]
    /\ UNCHANGED <<background_tasks, now, db_months, db_calendars,
                   color_index, db_events, resp, last_snapshot>>

\* Lines 112-114: record the outcome; the status stays "running".
UpdateTasksStatus(w) ==
    /\ pc[w] = "flags"
    /\ unit[w].kind = "tasks"
    /\ background_tasks' =
         [background_tasks EXCEPT ![unit[w].task_id] =
            Put(Put(@, "updated", unit[w].chores_changed),
                "chores_changed", unit[w].chores_changed)]
    /\ pc' = [pc EXCEPT ![w] = "finally"]
    /\ unit' = [unit EXCEPT ![w] = Leaving(@)]
    /\ UNCHANGED <<now, db_months, db_calendars, color_index,
                   db_events, db_chores, resp, last_snapshot>>

\* An exception raised inside the try block of a chores work unit.
RaiseTasks(w) ==
    /\ pc[w] \in {"get_chores", "read_db", "select", "write"}
    /\ unit[w].kind = "tasks"
    /\ pc' = [pc EXCEPT ![w] = "except"]
    /\ unit' = [unit EXCEPT ![w] = Leaving(@)]
    /\ UNCHANGED <<background_tasks, now, db_months, db_calendars,
                   color_index, db_events, db_chores, resp, last_snapshot>>

\* Lines 116-121: the except block of fetch_google_tasks_background.
ExceptTasks(w) ==
    /\ pc[w] = "except"
    /\ unit[w].kind = "tasks"
    /\ background_tasks' =
         [background_tasks EXCEPT ![unit[w].task_id] =
            ErrorRecord(@, "chores_changed", FALSE)]
    /\ pc' = [pc EXCEPT ![w] = "finally"]
    /\ UNCHANGED <<now, unit, db_months, db_calendars, color_index,
                   db_events, db_chores, resp, last_snapshot>>

\* update_google_task / mark_task_completed after the remote update has
\* succeeded: the foreground refresh, lines 145-147 and 169-171.
ForegroundRefresh ==
    /\ Idle # {}
    /\ pc' = [pc EXCEPT ![FreeWorker] = "get_chores"]
    /\ unit' = [unit EXCEPT ![FreeWorker] = ChoresPass("foreground", TasksId, FALSE)]
    /\ UNCHANGED <<background_tasks, now, db_months, db_calendars,
                   color_index, db_events, db_chores, resp, last_snapshot>>

\* Lines 150-152 and 174-176: an exception in the foreground refresh is
\* caught and the function returns False.
RaiseForeground(w) ==
    /\ pc[w] \in {"get_chores", "select", "write"}
    /\ unit[w].kind = "foreground"
    /\ pc' = [pc EXCEPT ![w] = "idle"]
    /\ unit' = [unit EXCEPT ![w] = NoUnit]
    /\ UNCHANGED <<background_tasks, now, db_months, db_calendars,
                   color_index, db_events, db_chores, resp, last_snapshot>>

\* update_status -> update_chore_status: UPDATE Chores SET status = ? WHERE
\* id = ?.  A user who takes a chore out of 'invisible' ends its suppression
\* for the passes under way.
UpdateStatus(chore_id, new_status) ==
    /\ new_status \in {"needsAction", "completed", "invisible"}
    /\ db_chores' =
         IF chore_id \in DOMAIN db_chores
         THEN [db_chores EXCEPT ![chore_id].status = new_status]
         ELSE db_chores
    /\ unit' = [w \in Workers |->
                  IF "shielded" \in DOMAIN unit[w] /\ new_status # "invisible"
                  THEN [unit[w] EXCEPT !.shielded = @ \ {chore_id}]
                  ELSE unit[w]]
    /\ UNCHANGED <<background_tasks, now, pc, db_months, db_calendars,
                   color_index, db_events, resp, last_snapshot>>

\* The add-chore flow.  The id str(uuid.uuid4()) gives the local row, and the
\* id the remote task list gives the task it creates.
LocalChoreId == "u1"
NewRemoteId == "x1"
NoTask == [id |-> "none"]

\* db.add_chore(assigned_to, description): INSERT under the local id, status
\* 'needsAction', no due date.
AddChore(rows, chore_id, assigned_to, description) ==
    Put(rows, chore_id, [title |-> assigned_to, notes |-> description,
                         status |-> "needsAction", due |-> "none"])

\* add_chore_route, lines 73-101: the local insert; the request thread goes
\* on to the remote create.  One chore is added in the model.
AddChoreRoute(title, notes) ==
    /\ Idle # {}
    /\ "id" \notin DOMAIN resp
    /\ \A w \in Workers : unit[w].kind # "add_chore"
    /\ db_chores' = AddChore(db_chores, LocalChoreId, title, notes)
    /\ pc' = [pc EXCEPT ![FreeWorker] = "create_chore"]
    /\ unit' = [unit EXCEPT ![FreeWorker] =
                  [kind |-> "add_chore", local_chore_id |-> LocalChoreId,
                   title |-> title, notes |-> notes,
                   google_task_id |-> "none"]]
    /\ UNCHANGED <<background_tasks, now, db_months, db_calendars,
                   color_index, db_events, resp, last_snapshot>>

\* tasks_api.create_chore(title, details), line 105, and the branch of line
\* 107: the task the remote list created, or nothing; without a task the
\* request answers with the local id.
CreateChore(w, google_task) ==
    /\ pc[w] = "create_chore"
    /\ IF google_task # NoTask
       THEN /\ pc' = [pc EXCEPT ![w] = "update_id"]
            /\ unit' = [unit EXCEPT ![w].google_task_id = google_task.id]
            /\ UNCHANGED resp
       ELSE /\ pc' = [pc EXCEPT ![w] = "idle"]
            /\ unit' = [unit EXCEPT ![w] = NoUnit]
            /\ resp' = [success |-> TRUE, id |-> unit[w].local_chore_id,
                        synced |-> FALSE]
    /\ UNCHANGED <<background_tasks, now, db_months, db_calendars,
                   color_index, db_events, db_chores, last_snapshot>>

\* update_chore_google_id: nothing is written when a row with the google id
\* exists already (lines 124-126) or the local row is gone (lines 131-133);
\* else the local row is written under the google id and its own id deleted.
UpdateChoreGoogleId(rows, local_chore_id, google_task_id) ==
    IF google_task_id \in DOMAIN rows /\ google_task_id # local_chore_id
    THEN rows
    ELSE IF local_chore_id \notin DOMAIN rows
    THEN rows
    ELSE IF local_chore_id # google_task_id
    THEN [x \in (DOMAIN rows \cup {google_task_id}) \ {local_chore_id} |->
             IF x = google_task_id THEN rows[local_chore_id] ELSE rows[x]]
    ELSE rows

\* add_chore_route, lines 108-127: the rebind, and the answer with the
\* google id.
RebindChore(w) ==
    /\ pc[w] = "update_id"
    /\ db_chores' = UpdateChoreGoogleId(db_chores, unit[w].local_chore_id,
                                         unit[w].google_task_id)
    /\ resp' = [success |-> TRUE, id |-> unit[w].google_task_id, synced |-> TRUE]
    /\ pc' = [pc EXCEPT ![w] = "idle"]
    /\ unit' = [unit EXCEPT ![w] = NoUnit]
    /\ UNCHANGED <<background_tasks, now, db_months, db_calendars,
                   color_index, db_events, last_snapshot>>

\* The remote task list holds the new task from its creation on.
Created ==
    \/ \E w \in Workers : unit[w].kind = "add_chore" /\ pc[w] = "update_id"
    \/ "id" \in DOMAIN resp /\ resp.id = NewRemoteId

\* The task the remote list holds for the chore a request is adding.
CreatedTask ==
    {[id |-> NewRemoteId, title |-> t, notes |-> "dishes",
      status |-> "needsAction", due |-> "none"] :
        t \in {u \in {"Ann", "Bob"} :
                 \/ \E w \in Workers : unit[w].kind = "add_chore" /\ unit[w].title = u
                 \/ /\ NewRemoteId \in DOMAIN db_chores
                    /\ db_chores[NewRemoteId].title = u
                 \/ /\ LocalChoreId \in DOMAIN db_chores
                    /\ db_chores[LocalChoreId].title = u}}

\* The lists tasks_api.get_chores() can return as the flow goes: [] when the
\* call fails, else the new task once created, and the chore x2 or not.
RemoteLists ==
    {a \o b : a \in {<<>>} \cup (IF Created THEN {<<c>> : c \in CreatedTask} ELSE {}),
              b \in {<<>>} \cup {<<c>> : c \in RemoteVersions("x2")}}

\* ------------------------------------------------------------ the triggers
\* threading.Thread(target=...).start()
Spawn(started) ==
    /\ Idle # {}
    /\ pc' = [pc EXCEPT ![FreeWorker] = "spawned"]
    /\ unit' = [unit EXCEPT ![FreeWorker] = started]

\* current_time - last_update_time > sync_interval_seconds, with
\* task_info.get("last_update_time", 0).
IsStale(task_info) ==
    now - Get(task_info, "last_update_time", 0) > sync_interval_minutes

\* _should_start_calendar_background_task: the value returned.
ShouldStartCalendar(task_id) ==
    IF task_id \notin DOMAIN background_tasks
       \/ background_tasks[task_id]["status"] \notin {"running", "complete"}
    THEN TRUE
    ELSE IF background_tasks[task_id]["status"] = "complete"
         THEN IsStale(background_tasks[task_id])
         ELSE FALSE

\* _should_start_calendar_background_task: the registry it leaves (line 55).
ClaimStale(task_id) ==
    IF task_id \in DOMAIN background_tasks
       /\ background_tasks[task_id]["status"] = "complete"
       /\ IsStale(background_tasks[task_id])
    THEN [background_tasks EXCEPT ![task_id] = Put(@, "status", "pending_refresh")]
    ELSE background_tasks

\* view, lines 229-248: the month is registered, then the calendar sync is
\* started when _should_start_calendar_background_task says so.
View(month, year) ==
    /\ 1 <= month /\ month <= 12
    /\ db_months' = db_months \cup {MonthId(month, year)}
    /\ background_tasks' = ClaimStale(TaskId(month, year))
    /\ IF ShouldStartCalendar(TaskId(month, year))
       THEN Spawn(EventsUnit(month, year,
                    [by |-> "view", saw |-> StatusOf(TaskId(month, year))]))
       ELSE UNCHANGED <<pc, unit>>
    /\ UNCHANGED <<now, db_calendars, color_index, db_events, db_chores,
                   resp, last_snapshot>>

\* _should_start_chores_background_task
ShouldStartChores ==
    IF TasksId \notin DOMAIN background_tasks
    THEN TRUE
    ELSE background_tasks[TasksId]["status"] \notin {"running", "complete"}

\* view, lines 251-252: _start_chores_background_sync calls
\* fetch_google_tasks_background in the request's own thread.
ViewChores ==
    /\ ShouldStartChores
    /\ Spawn(TasksUnit([by |-> "view", saw |-> StatusOf(TasksId)], FALSE))
    /\ UNCHANGED <<background_tasks, now, db_months, db_calendars,
                   color_index, db_events, db_chores, resp, last_snapshot>>

\* _check_calendar_task_status: (status, events_changed, should_trigger_refresh).
CheckCalendarTaskStatus(calendar_task_id) ==
    IF calendar_task_id \notin DOMAIN background_tasks
    THEN [status |-> "not_tracked", events_changed |-> FALSE,
          should_trigger_refresh |-> TRUE]
    ELSE LET calendar_task_info == background_tasks[calendar_task_id] IN
         IF calendar_task_info["status"] = "complete"
         THEN [status |-> "complete",
               events_changed |-> Get(calendar_task_info, "events_changed", FALSE),
               should_trigger_refresh |-> IsStale(calendar_task_info)]
         ELSE [status |-> calendar_task_info["status"],
               events_changed |-> FALSE, should_trigger_refresh |-> FALSE]

\* A check that reads a flag and leaves it set.
ReadFlag(task_info, flag) == task_info

\* Lines 334-336 and 364-366: a flag that was read true is cleared, with
\* 'updated'.
ConsumeFlag(task_info, flag) ==
    IF Get(task_info, flag, FALSE)
    THEN Put(Put(task_info, flag, FALSE), "updated", FALSE)
    ELSE task_info

\* _check_calendar_task_status: the record it leaves (lines 332-344).
AfterCalendarCheck(calendar_task_info) ==
    IF calendar_task_info["status"] = "complete"
    THEN LET consumed == ConsumeFlag(calendar_task_info, "events_changed") IN
         IF IsStale(calendar_task_info)
         THEN Put(consumed, "status", "pending_refresh")
         ELSE consumed
    ELSE calendar_task_info

\* A chores check that reports the flag whatever the status is.
ChoresFlagAnyStatus(chores_task_id) ==
    IF chores_task_id \notin DOMAIN background_tasks
    THEN [status |-> "not_tracked", chores_changed |-> FALSE]
    ELSE [status |-> background_tasks[chores_task_id]["status"],
          chores_changed |->
              Get(background_tasks[chores_task_id], "chores_changed", FALSE)]

\* _check_chores_task_status: (status, chores_changed).
CheckChoresTaskStatus(chores_task_id) ==
    IF chores_task_id \notin DOMAIN background_tasks
    THEN [status |-> "not_tracked", chores_changed |-> FALSE]
    ELSE LET chores_task_info == background_tasks[chores_task_id] IN
         [status |-> chores_task_info["status"],
          chores_changed |->
              chores_task_info["status"] = "complete"
              /\ Get(chores_task_info, "chores_changed", FALSE)]

\* _check_chores_task_status: the record it leaves (lines 362-366).
AfterChoresCheck(chores_task_info) ==
    IF chores_task_info["status"] = "complete"
    THEN ConsumeFlag(chores_task_info, "chores_changed")
    ELSE chores_task_info

\* check_updates: the JSON it returns.
PollResponse(month, year) ==
    LET cal == CheckCalendarTaskStatus(TaskId(month, year))
        cho == CheckChoresTaskStatus(TasksId)
    IN [calendar_status |-> cal.status,
        chores_status |-> cho.status,
        updates_available |-> cal.events_changed \/ cho.chores_changed,
        events_changed |-> cal.events_changed,
        chores_changed |-> cho.chores_changed,
        refresh_triggered |-> cal.should_trigger_refresh,
        month |-> month, year |-> year]

\* check_updates: both checks under one hold of google_fetch_lock (lines
\* 405-418), then the refresh thread (line 421).
Poll(month, year) ==
    /\ resp' = PollResponse(month, year)
    /\ LET calendar_checked ==
               IF TaskId(month, year) \in DOMAIN background_tasks
               THEN [background_tasks EXCEPT
                       ![TaskId(month, year)] = AfterCalendarCheck(@)]
               ELSE background_tasks
       IN background_tasks' =
            IF TasksId \in DOMAIN calendar_checked
            THEN [calendar_checked EXCEPT ![TasksId] = AfterChoresCheck(@)]
            ELSE calendar_checked
    /\ IF PollResponse(month, year).refresh_triggered
       THEN Spawn(EventsUnit(month, year,
                    [by |-> "poll", saw |-> StatusOf(TaskId(month, year))]))
       ELSE UNCHANGED <<pc, unit>>
    /\ UNCHANGED <<now, db_months, db_calendars, color_index, db_events,
                   db_chores, last_snapshot>>

\* _sync_photos_if_needed, which check_updates calls before it takes the
\* lock: when the registry holds no "_last_photo_sync" entry, or one older
\* than 600 seconds, the photos are synced and the entry is written.
PhotoSyncKey == <<"_last_photo_sync">>

SyncPhotosIfNeeded ==
    /\ IF PhotoSyncKey \notin DOMAIN background_tasks THEN TRUE
       ELSE now - Get(background_tasks[PhotoSyncKey], "last_sync", 0) > 10
    /\ background_tasks' = Put(background_tasks, PhotoSyncKey, [last_sync |-> now])
    /\ UNCHANGED <<now, pc, unit, db_months, db_calendars, color_index,
                   db_events, db_chores, resp, last_snapshot>>

\* refresh_calendar: rejected while the task runs, else the thread is started.
RefreshCalendar(month, year) ==
    /\ ~AlreadyRunning(TaskId(month, year))
    /\ Spawn(EventsUnit(month, year,
               [by |-> "manual", saw |-> StatusOf(TaskId(month, year))]))
    /\ UNCHANGED <<background_tasks, now, db_months, db_calendars,
                   color_index, db_events, db_chores, resp, last_snapshot>>

\* refresh_tasks: rejected while the task runs, else the thread is started.
RefreshTasks ==
    /\ ~AlreadyRunning(TasksId)
    /\ Spawn(TasksUnit([by |-> "manual", saw |-> StatusOf(TasksId)], TRUE))
    /\ UNCHANGED <<background_tasks, now, db_months, db_calendars,
                   color_index, db_events, db_chores, resp, last_snapshot>>

\* refresh_chores, lines 47-61: the record is set to running under the lock,
\* then fetch_google_tasks_background is called in the request's own thread.
RefreshChores ==
    /\ ~AlreadyRunning(TasksId)
    /\ background_tasks' =
         Put(background_tasks, TasksId, [status |-> "running", updated |-> FALSE])
    /\ Spawn(TasksUnit([by |-> "refresh_chores", saw |-> StatusOf(TasksId)],
                       FALSE))
    /\ UNCHANGED <<now, db_months, db_calendars, color_index, db_events,
                   db_chores, resp, last_snapshot>>

\* A manual refresh that finds its task running returns
\* jsonify({"message": "... already in progress"}), 202 from inside the lock
\* block.  The response is no poll response (calendar_status "none").
Advisory(message) == [calendar_status |-> "none", message |-> message, code |-> 202]

\* refresh_calendar, lines 188-190.
RefreshCalendarRejected(month, year) ==
    /\ AlreadyRunning(TaskId(month, year))
    /\ resp' = Advisory("Calendar refresh already in progress")
    /\ UNCHANGED <<background_tasks, now, pc, unit, db_months, db_calendars,
                   color_index, db_events, db_chores, last_snapshot>>

\* refresh_tasks, lines 214-216.
RefreshTasksRejected ==
    /\ AlreadyRunning(TasksId)
    /\ resp' = Advisory("Tasks refresh already in progress")
    /\ UNCHANGED <<background_tasks, now, pc, unit, db_months, db_calendars,
                   color_index, db_events, db_chores, last_snapshot>>

\* refresh_chores, lines 47-53.
RefreshChoresRejected ==
    /\ AlreadyRunning(TasksId)
    /\ resp' = Advisory("Refresh already in progress")
    /\ UNCHANGED <<background_tasks, now, pc, unit, db_months, db_calendars,
                   color_index, db_events, db_chores, last_snapshot>>

\* Time passes.
Tick ==
    /\ now + TickStep <= StartTime + MaxTicks * TickStep
    /\ now' = now + TickStep
    /\ UNCHANGED <<background_tasks, pc, unit, db_months, db_calendars,
                   color_index, db_events, db_chores, resp, last_snapshot>>

\* ------------------------------------------------------------ the day view
\* Dates are days of May 2025, times of day are <<hour, minute, second>>.
\* The datetimes of stored events are timezone-aware (parse_google_datetime,
\* api.py lines 25 and 35-36), so _normalize_event_timezone leaves them as
\* they are.
Days == 14..16
Midnight == <<0, 0, 0>>
Times == {Midnight, <<0, 0, 1>>, <<0, 1, 0>>, <<10, 0, 0>>}
DateTimes == [date : Days, time : Times]

\* a < b on datetimes.
Before(a, b) ==
    \/ a.date < b.date
    \/ /\ a.date = b.date
       /\ \/ a.time[1] < b.time[1]
          \/ a.time[1] = b.time[1] /\ a.time[2] < b.time[2]
          \/ a.time[1] = b.time[1] /\ a.time[2] = b.time[2]
                /\ a.time[3] < b.time[3]

\* Timed events end no earlier than they start; an all-day event runs from
\* midnight to the midnight of a later day (parse_google_datetime line 25).
TimedEvents ==
    {[start_datetime |-> p[1], end_datetime |-> p[2], all_day |-> FALSE] :
        p \in {q \in DateTimes \X DateTimes : ~Before(q[2], q[1])}}
AllDayEvents ==
    {[start_datetime |-> [date |-> p[1], time |-> Midnight],
      end_datetime |-> [date |-> p[2], time |-> Midnight], all_day |-> TRUE] :
        p \in {q \in Days \X Days : q[1] < q[2]}}
StoredEvents == TimedEvents \cup AllDayEvents
\* The events the longer lists are made of: on the hour, and covering the
\* 15th.
HourlyEvents ==
    {e \in StoredEvents : /\ e.start_datetime.time \in {Midnight, <<10, 0, 0>>}
                          /\ e.end_datetime.time \in {Midnight, <<10, 0, 0>>}
                          /\ e.start_datetime.date <= 15
                          /\ 15 <= e.end_datetime.date}
\* The lists get_all_events_for_month_range can return: any one event, or up to
\* MaxDayEvents events on the hour.
EventLists ==
    {<<e>> : e \in StoredEvents}
        \cup UNION {[1..n -> HourlyEvents] : n \in 0..MaxDayEvents}

\* A test of the end time that looks at the hour only.
IsMidnightHour(dt) == dt.time[1] = 0

\* _is_midnight_end
IsMidnightEnd(dt) == dt.time[1] = 0 /\ dt.time[2] = 0 /\ dt.time[3] = 0

\* _is_single_day_event_relevant
IsSingleDayEventRelevant(start_date, end_date, target_date) ==
    start_date = end_date /\ target_date = start_date

\* _is_multi_day_event_relevant
IsMultiDayEventRelevant(start_date, end_date, target_date, is_midnight_end) ==
    IF ~(start_date <= target_date /\ target_date <= end_date) THEN FALSE
    ELSE IF target_date = end_date /\ is_midnight_end /\ start_date # end_date
    THEN FALSE
    ELSE TRUE

\* _is_event_relevant_for_date
IsEventRelevantForDate(event, target_date) ==
    LET start_date == event.start_datetime.date
        end_date == event.end_datetime.date
        is_midnight_end == IsMidnightEnd(event.end_datetime)
    IN IF start_date = end_date
       THEN IsSingleDayEventRelevant(start_date, end_date, target_date)
       ELSE IsMultiDayEventRelevant(start_date, end_date, target_date,
                                    is_midnight_end)

\* A sort key that ignores the all_day flag.
StartLess(x, y) == Before(x.start_datetime, y.start_datetime)

\* key(x) < key(y) for the sort key (not all_day, start_datetime).
KeyLess(x, y) ==
    \/ x.all_day /\ ~y.all_day
    \/ x.all_day = y.all_day /\ Before(x.start_datetime, y.start_datetime)

\* list.sort is stable: an event goes behind the events whose key is not
\* greater than its own.
RECURSIVE Insert(_, _)
Insert(x, sorted) ==
    IF sorted = <<>> THEN <<x>>
    ELSE IF KeyLess(x, Head(sorted)) THEN <<x>> \o sorted
    ELSE <<Head(sorted)>> \o Insert(x, Tail(sorted))

RECURSIVE SortEvents(_)
SortEvents(events) ==
    IF events = <<>> THEN <<>>
    ELSE Insert(events[Len(events)],
                SortEvents(SubSeq(events, 1, Len(events) - 1)))

\* _filter_events_for_day
FilterEventsForDay(events, target_date) ==
    LET Relevant(event) == IsEventRelevantForDate(event, target_date)
    IN SortEvents(SelectSeq(events, Relevant))

\* view, line 259: today_events = _filter_events_for_day(db_events, today_date)
TodayEvents(w) ==
    /\ pc[w] = "today"
    /\ unit' = [unit EXCEPT ![w].today_events =
                   FilterEventsForDay(unit[w].db_events, unit[w].today_date)]
    /\ pc' = [pc EXCEPT ![w] = "rendered"]
    /\ UNCHANGED <<background_tasks, now, db_months, db_calendars,
                   color_index, db_events, db_chores, resp, last_snapshot>>

\* ------------------------------------------------------ the remote adapter
\* The token file an adapter call finds: valid credentials, none, expired
\* credentials with a refresh token, or a file that is no authorized-user
\* file.
TokenFiles == {"valid", "absent", "expired", "malformed"}
\* The OAuth flow: credentials.json is missing, the flow fails, or it succeeds.
Flows == {"no_credentials_file", "fails", "ok"}

\* authenticate / authenticate_tasks: "creds", "none" (return None) or
\* "raise".  Credentials.from_authorized_user_file (api.py line 65,
\* tasks_api.py line 28) is called outside every try block.
Authenticate(token, refresh_ok, flow) ==
    IF token = "malformed" THEN "raise"
    ELSE IF token = "valid" THEN "creds"
    ELSE IF token = "expired" /\ refresh_ok THEN "creds"
    ELSE IF flow = "ok" THEN "creds"
    ELSE "none"

\* An outcome of an adapter call: a value returned or an exception.
Returned(value) == [raised |-> FALSE, value |-> value]
Raised == [raised |-> TRUE, value |-> "exception"]

\* fetch_and_process_google_events: authenticate() is called before the try
\* block (line 242); build and get_events_current_month run inside it.
FetchEventsOutcome(token, refresh_ok, flow, transport_ok, remote) ==
    LET creds == Authenticate(token, refresh_ok, flow) IN
    IF creds = "raise" THEN Raised
    ELSE Returned(FetchAndProcessGoogleEvents(
                      IF transport_ok THEN remote ELSE {}, creds = "creds", {}))

\* get_chores: get_tasks_service calls authenticate_tasks() before its try
\* block (line 65); find_task_list_id and fetch_tasks_from_list catch every
\* exception of the remote calls.
GetChoresOutcome(token, refresh_ok, flow, service_ok, list_present, transport_ok, remote) ==
    LET creds == Authenticate(token, refresh_ok, flow) IN
    IF creds = "raise" THEN Raised
    ELSE IF creds = "none" \/ ~service_ok THEN Returned(<<>>)
    ELSE IF ~list_present THEN Returned(<<>>)
    ELSE IF ~transport_ok THEN Returned(<<>>)
    ELSE Returned(remote)

\* The start or end object of a remote event: a dateTime or a date-only
\* (all-day) field, well-formed or not.
GoogleDates == [key : {"dateTime", "date"}, ok : BOOLEAN]

\* parse_google_datetime: (dt, is_all_day), or an exception.  The strptime
\* of the date-only branch (line 25) is outside the try block of lines
\* 28-40; the fallback of a malformed dateTime is datetime.min.
ParseGoogleDatetime(google_date_obj) ==
    IF google_date_obj.key = "date"
    THEN IF google_date_obj.ok
         THEN Returned([dt |-> "parsed", is_all_day |-> TRUE])
         ELSE Raised
    ELSE Returned([dt |-> IF google_date_obj.ok THEN "parsed" ELSE "min",
                   is_all_day |-> FALSE])

\* fetch_and_process_google_events, the loop of lines 255-274 over the raw
\* events: the processed events, or the exception of a parse.
RECURSIVE ProcessRawEvents(_, _)
ProcessRawEvents(google_events_raw, processed_events) ==
    IF google_events_raw = <<>> THEN Returned(processed_events)
    ELSE LET event_data == Head(google_events_raw)
             start == ParseGoogleDatetime(event_data.start)
             end == ParseGoogleDatetime(event_data.end)
         IN IF start.raised \/ end.raised THEN Raised
            ELSE ProcessRawEvents(
                     Tail(google_events_raw),
                     Append(processed_events,
                            [id |-> event_data.id,
                             start_datetime |-> start.value.dt,
                             end_datetime |-> end.value.dt,
                             all_day |-> start.value.is_all_day]))

\* fetch_and_process_google_events, lines 248-281: the loop runs inside the
\* try block, whose except clauses return [].
ProcessGoogleEvents(google_events_raw) ==
    IF google_events_raw = <<>> THEN Returned(<<>>)
    ELSE LET processed == ProcessRawEvents(google_events_raw, <<>>) IN
         IF processed.raised THEN Returned(<<>>) ELSE processed

\* fetch_google_events_background line 30, for a batch of raw events the
\* remote calendar has returned.
CallProcessEvents(w) ==
    /\ pc[w] = "call_process_events"
    /\ unit' = [unit EXCEPT ![w].outcome = ProcessGoogleEvents(unit[w].batch)]
    /\ pc' = [pc EXCEPT ![w] = "called"]
    /\ UNCHANGED <<background_tasks, now, db_months, db_calendars,
                   color_index, db_events, db_chores, resp, last_snapshot>>

\* fetch_google_events_background line 30: the call of the events adapter.
CallFetchEvents(w) ==
    /\ pc[w] = "call_fetch_events"
    /\ unit' = [unit EXCEPT ![w].outcome =
                   FetchEventsOutcome(unit[w].token, unit[w].refresh_ok,
                                      unit[w].flow, unit[w].transport_ok,
                                      unit[w].remote)]
    /\ pc' = [pc EXCEPT ![w] = "called"]
    /\ UNCHANGED <<background_tasks, now, db_months, db_calendars,
                   color_index, db_events, db_chores, resp, last_snapshot>>

\* fetch_google_tasks_background line 87: the call of the chores adapter.
CallGetChores(w) ==
    /\ pc[w] = "call_get_chores"
    /\ unit' = [unit EXCEPT ![w].outcome =
                   GetChoresOutcome(unit[w].token, unit[w].refresh_ok,
                                    unit[w].flow, unit[w].service_ok,
                                    unit[w].list_present, unit[w].transport_ok,
                                    unit[w].remote)]
    /\ pc' = [pc EXCEPT ![w] = "called"]
    /\ UNCHANGED <<background_tasks, now, db_months, db_calendars,
                   color_index, db_events, db_chores, resp, last_snapshot>>

\* ------------------------------------------------- the calendar resolution
\* The names the remote source can give a calendar, and the contents of
\* calendar_aliases.conf, which is read anew for every event.
Summaries(calendar_id) == IF calendar_id = "cal1" THEN {"Work", "Job"} ELSE {"Home"}
AliasConfigs == {Empty, [c \in {"cal1"} |-> "Desk"]}

\* The processed records of an event: its id and its calendar under a name.
RecordsOf(e) ==
    {[id |-> e, calendar_id |-> CalOf(e), calendar_name |-> n] :
        n \in Summaries(CalOf(e))}
\* The batches fetch_and_process_google_events can return for the calendars.
CalendarBatches ==
    {<<r>> : r \in RecordsOf("e1") \cup RecordsOf("e2")}
        \cup {<<r1, r2>> : r1 \in RecordsOf("e1"), r2 \in RecordsOf("e2")}
\* No failing store call, or one failing store call in the pass.
Faults(data) ==
    {NoFault} \cup [op : {"get_calendar", "add_calendar", "refetch"},
                    at : DOMAIN data]

\* One call of create_calendar_events_from_google_data (lines 65-137) on the
\* store as it is.
ResolvePass(w, data, aliases, fault) ==
    /\ pc[w] \in {"idle", "resolved"}
    /\ color_index < MaxColorIndex
    /\ LET r == ResolveEach(data, 1, aliases, fault,
                            [cals |-> db_calendars, index |-> color_index,
                             changed |-> FALSE, events |-> <<>>,
                             written |-> {}])
       IN /\ db_calendars' = r.cals
          /\ color_index' = r.index
          /\ unit' = [unit EXCEPT ![w] =
                        [kind |-> "resolve", data |-> data, aliases |-> aliases,
                         fault |-> fault, before |-> db_calendars,
                         calendars_changed |-> r.changed,
                         events |-> r.events, written |-> r.written]]
    /\ pc' = [pc EXCEPT ![w] = "resolved"]
    /\ UNCHANGED <<background_tasks, now, db_months, db_events, db_chores,
                   resp, last_snapshot>>

\* ------------------------------------------------------- the store passes
\* The CalendarEvent objects a batch can hold: an id under either of two
\* titles (an event listed twice keeps its id).
EventObjects ==
    {[id |-> e, calendar_id |-> CalOf(e), title |-> t] :
        e \in EventIds, t \in {"a", "b"}}
EventBatches == UNION {[1..n -> EventObjects] : n \in 1..MaxBatch}
\* No failing row, or a single failing row.
RowFaults(batch) == {{}} \cup {{at} : at \in DOMAIN batch}

\* One call of add_events (lines 9-62) on the store as it is; the commit of
\* db_connection ends it.
AddEventsPass(w, month_id, events, faults) ==
    /\ pc[w] \in {"idle", "passed"}
    /\ LET r == AddEventsEach(events, 1, month_id, faults,
                              [rows |-> db_events, changes_made |-> FALSE,
                               processed_ids |-> {}, written |-> <<>>])
       IN /\ db_events' = r.rows
          /\ unit' = [unit EXCEPT ![w] =
                        [kind |-> "add_events", events |-> events,
                         faults |-> faults, written |-> r.written,
                         changes_made |-> r.changes_made, raised |-> FALSE]]
    /\ pc' = [pc EXCEPT ![w] = "passed"]
    /\ UNCHANGED <<background_tasks, now, db_months, db_calendars, color_index,
                   db_chores, resp, last_snapshot>>

\* One call of add_chores (chores_app/database.py lines 47-69) on the store
\* as it is.  The function has no except: a sqlite3.Error at a row leaves it
\* before the commit of line 68, the rows written so far are rolled back when
\* the connection goes, and the error reaches the caller.
AddChoresPass(w, chores, faults) ==
    /\ pc[w] \in {"idle", "passed"}
    /\ db_chores' = IF faults = {} THEN WriteChores(chores, db_chores)
                    ELSE db_chores
    /\ unit' = [unit EXCEPT ![w] =
                  [kind |-> "add_chores", chores |-> chores, faults |-> faults,
                   before |-> db_chores, raised |-> faults # {}]]
    /\ pc' = [pc EXCEPT ![w] = "passed"]
    /\ UNCHANGED <<background_tasks, now, db_months, db_calendars, color_index,
                   db_events, resp, last_snapshot>>

\* One call of cleanup_deleted_events (lines 152-201) on the store as it is.
\* failing holds the id whose DELETE raises sqlite3.Error, if any: executemany
\* stops there, the except of lines 199-201 returns False, and db_connection
\* commits the deletions done before it (the ids of done).
CleanupPass(w, month_id, current_google_event_ids, failing, done) ==
    /\ pc[w] \in {"idle", "passed"}
    /\ LET events_to_delete == EventsToDelete(month_id, current_google_event_ids)
           gone == IF failing = {} THEN events_to_delete ELSE done
       IN /\ failing \subseteq events_to_delete
          /\ done \subseteq events_to_delete \ failing
          /\ failing = {} => done = {}
          /\ db_events' = [e \in DOMAIN db_events \ gone |-> db_events[e]]
          /\ unit' = [unit EXCEPT ![w] =
                        [kind |-> "cleanup", events_to_delete |-> events_to_delete,
                         faults |-> failing,
                         deleted |-> (failing = {} /\ events_to_delete # {}),
                         raised |-> FALSE]]
    /\ pc' = [pc EXCEPT ![w] = "passed"]
    /\ UNCHANGED <<background_tasks, now, db_months, db_calendars, color_index,
                   db_chores, resp, last_snapshot>>

\* ------------------------------------------------------- specifications
\* The state after the application has started on a fresh installation: an
\* empty registry (src/main.py line 29) and empty tables.
Init ==
    /\ background_tasks = Empty
    /\ now = StartTime
    /\ pc = [w \in Workers |-> "idle"]
    /\ unit = [w \in Workers |-> NoUnit]
    /\ db_months = {}
    /\ db_calendars = Empty
    /\ color_index = 0
    /\ db_events = Empty
    /\ db_chores = Empty
    /\ resp = NoResp
    /\ last_snapshot = Empty

\* The steps of an events work unit up to its finally block.  remotes: the
\* sets of events the remote source can hold; faileds: the sets of calendars
\* whose listing can fail during one fetch.
EventsStep(w, remotes, faileds) ==
    \/ ClaimEvents(w)
    \/ AddMonth(w)
    \/ \E remote \in remotes, auth_ok \in BOOLEAN, failed \in faileds :
          FetchEvents(w, remote, auth_ok, failed)
    \/ CreateCalendarEvents(w)
    \/ CleanupDeletedEvents(w)
    \/ AddEvents(w)
    \/ UpdateEventsStatus(w)
    \/ RaiseEvents(w)
    \/ ExceptEvents(w)

\* The steps of a chores work unit up to its finally block.  lists: the
\* lists the remote task list can return.
TasksStep(w, lists) ==
    \/ ClaimTasks(w)
    \/ \E l \in lists : GetChores(w, l)
    \/ CompareChores(w)
    \/ AddChoresSelect(w)
    \/ AddChoresWrite(w)
    \/ UpdateTasksStatus(w)
    \/ RaiseTasks(w)
    \/ ExceptTasks(w)

\* A remote calendar that holds one event, and a remote task list that holds
\* at most one chore.
OneEvent == {{"e1"}}
NoFailure == {{}}
OneChore == {<<>>} \cup {<<c>> : c \in RemoteVersions("x2")}

\* The registry of a month under every trigger of the calendar sync: page
\* views, polls, manual refreshes, the clock, and the events work units.
Next ==
    \/ \E month \in Months, year \in Years :
          \/ View(month, year)
          \/ Poll(month, year)
          \/ RefreshCalendar(month, year)
    \/ Tick
    \/ \E w \in Workers :
          \/ EventsStep(w, OneEvent, NoFailure)
          \/ Finally(w)

Spec == Init /\ [][Next]_vars

\* The poll endpoint over both records as time passes: the events work
\* units it starts and the chores work units the page view starts.
NextUpdates ==
    \/ \E month \in Months, year \in Years : Poll(month, year)
    \/ ViewChores
    \/ Tick
    \/ \E w \in Workers :
          \/ EventsStep(w, OneEvent, NoFailure)
          \/ TasksStep(w, OneChore)
          \/ Finally(w)

SpecUpdates == Init /\ [][NextUpdates]_vars

\* The poll endpoint over both records when work units fail: events work
\* units started by polls and manual refreshes, chores work units started by
\* the page view.
NextErrors ==
    \/ \E month \in Months, year \in Years :
          \/ Poll(month, year)
          \/ RefreshCalendar(month, year)
    \/ ViewChores
    \/ \E w \in Workers :
          \/ EventsStep(w, OneEvent, NoFailure)
          \/ TasksStep(w, OneChore)
          \/ Finally(w)

SpecErrors == Init /\ [][NextErrors]_vars

\* The events store under manual refreshes, with every remote content and
\* every partial failure of a fetch.
NextEvents ==
    \/ \E month \in Months, year \in Years : RefreshCalendar(month, year)
    \/ \E w \in Workers :
          \/ EventsStep(w, SUBSET EventIds, SUBSET CalendarIds)
          \/ Finally(w)

SpecEvents == Init /\ [][NextEvents]_vars

\* The chores store: the chores sync started by the page view, the
\* foreground refresh, and the user's status changes.
NextChores ==
    \/ ViewChores
    \/ ForegroundRefresh
    \/ \E chore_id \in ChoreIds,
          new_status \in {"needsAction", "completed", "invisible"} :
          UpdateStatus(chore_id, new_status)
    \/ \E w \in Workers :
          \/ TasksStep(w, ChoreLists)
          \/ RaiseForeground(w)
          \/ Finally(w)

SpecChores == Init /\ [][NextChores]_vars

\* The request boundary: page views, polls and manual refreshes that name
\* any month, and the events work units they start.
NextBoundary ==
    \/ \E month \in RequestMonths, year \in Years :
          \/ View(month, year)
          \/ Poll(month, year)
          \/ RefreshCalendar(month, year)
    \/ \E w \in Workers :
          \/ EventsStep(w, OneEvent, NoFailure)
          \/ Finally(w)

SpecBoundary == Init /\ [][NextBoundary]_vars

\* A view at line 259, for every list of stored events and every date.
InitDays ==
    /\ \E events \in EventLists, today_date \in Days :
          unit = [w \in Workers |->
                    IF w = 1
                    THEN [kind |-> "view", db_events |-> events,
                          today_date |-> today_date, today_events |-> <<>>]
                    ELSE NoUnit]
    /\ pc = [w \in Workers |-> IF w = 1 THEN "today" ELSE "idle"]
    /\ background_tasks = Empty
    /\ now = StartTime
    /\ db_months = {}
    /\ db_calendars = Empty
    /\ color_index = 0
    /\ db_events = Empty
    /\ db_chores = Empty
    /\ resp = NoResp
    /\ last_snapshot = Empty

NextDays == \E w \in Workers : TodayEvents(w)

SpecDays == InitDays /\ [][NextDays]_vars

\* The calls of the adapters, for every state of the token file, of the
\* remote service and of the remote data.
EventsAdapterCalls ==
    {[kind |-> "adapter", call |-> "call_fetch_events", token |-> t,
      refresh_ok |-> r, flow |-> f, service_ok |-> TRUE, list_present |-> TRUE,
      transport_ok |-> x, remote |-> d, outcome |-> Returned("pending")] :
         t \in TokenFiles, r \in BOOLEAN, f \in Flows, x \in BOOLEAN,
         d \in SUBSET EventIds}
ChoresAdapterCalls ==
    {[kind |-> "adapter", call |-> "call_get_chores", token |-> t,
      refresh_ok |-> r, flow |-> f, service_ok |-> s, list_present |-> l,
      transport_ok |-> x, remote |-> d, outcome |-> Returned("pending")] :
         t \in TokenFiles, r \in BOOLEAN, f \in Flows, s \in BOOLEAN,
         l \in BOOLEAN, x \in BOOLEAN, d \in OneChore}

\* The batches of raw events the remote calendar can return: the events of
\* a snapshot in order, each with any start and end object.
RawBatches ==
    UNION {{[i \in 1..Len(Ordered(EventSeq, d)) |->
               [id |-> Ordered(EventSeq, d)[i], start |-> f[i][1], end |-> f[i][2]]] :
            f \in [1..Len(Ordered(EventSeq, d)) -> GoogleDates \X GoogleDates]} :
           d \in SUBSET EventIds}
ProcessCalls ==
    {[kind |-> "adapter", call |-> "call_process_events", batch |-> b,
      outcome |-> Returned("pending")] : b \in RawBatches}

InitAdapter ==
    /\ \/ \E call \in EventsAdapterCalls :
             unit = [w \in Workers |-> IF w = 1 THEN call ELSE NoUnit]
       \/ \E call \in ChoresAdapterCalls :
             unit = [w \in Workers |-> IF w = 1 THEN call ELSE NoUnit]
       \/ \E call \in ProcessCalls :
             unit = [w \in Workers |-> IF w = 1 THEN call ELSE NoUnit]
    /\ pc = [w \in Workers |-> IF w = 1 THEN unit[w].call ELSE "idle"]
    /\ background_tasks = Empty
    /\ now = StartTime
    /\ db_months = {}
    /\ db_calendars = Empty
    /\ color_index = 0
    /\ db_events = Empty
    /\ db_chores = Empty
    /\ resp = NoResp
    /\ last_snapshot = Empty

NextAdapter ==
    \E w \in Workers :
        \/ CallFetchEvents(w)
        \/ CallGetChores(w)
        \/ CallProcessEvents(w)

SpecAdapter == InitAdapter /\ [][NextAdapter]_vars

\* Calls of add_calendar for new calendars without colour, from the threads
\* of the work units.
NextColors ==
    \E w \in Workers :
        \/ \E calendar_id \in NewCalendars : GetNextColorSelect(w, calendar_id)
        \/ AddCalendarWrite(w)

SpecColors == Init /\ [][NextColors]_vars

\* The manual refresh endpoints, accepted and rejected, and the work units
\* of both kinds they start.
NextRefresh ==
    \/ \E month \in Months, year \in Years :
          \/ RefreshCalendar(month, year)
          \/ RefreshCalendarRejected(month, year)
    \/ RefreshTasks
    \/ RefreshTasksRejected
    \/ RefreshChores
    \/ RefreshChoresRejected
    \/ \E w \in Workers :
          \/ EventsStep(w, OneEvent, NoFailure)
          \/ TasksStep(w, OneChore)
          \/ Finally(w)

SpecRefresh == Init /\ [][NextRefresh]_vars

\* The registry of the chores key under every trigger of the chores sync:
\* the page view and both manual refresh endpoints.
NextTasks ==
    \/ ViewChores
    \/ RefreshTasks
    \/ RefreshChores
    \/ \E w \in Workers :
          \/ TasksStep(w, OneChore)
          \/ Finally(w)

SpecTasks == Init /\ [][NextTasks]_vars

\* Passes of the calendar resolution, one after the other, over remote
\* names, alias files and store faults.
NextCalendars ==
    \E data \in CalendarBatches, aliases \in AliasConfigs :
        \E fault \in Faults(data) : ResolvePass(1, data, aliases, fault)

SpecCalendars == Init /\ [][NextCalendars]_vars

\* Store passes, one after the other, over batches with repeated ids and
\* failing rows.
NextRows ==
    \/ \E month \in Months, year \in Years, events \in EventBatches :
          \E faults \in RowFaults(events) :
              AddEventsPass(1, MonthId(month, year), events, faults)
    \/ \E chores \in ChoreLists : \E faults \in RowFaults(chores) :
          AddChoresPass(1, chores, faults)
    \/ \E month \in Months, year \in Years, ids \in SUBSET EventIds :
          \E failing \in {{}} \cup {{e} : e \in EventIds}, done \in SUBSET EventIds :
              CleanupPass(1, MonthId(month, year), ids, failing, done)

SpecRows == Init /\ [][NextRows]_vars

\* The registry under the poll endpoint as a whole: its photo sync, then its
\* locked block, beside the page views, the manual refreshes and the work
\* units.
NextLock ==
    \/ SyncPhotosIfNeeded
    \/ \E month \in Months, year \in Years :
          \/ View(month, year)
          \/ Poll(month, year)
          \/ RefreshCalendar(month, year)
    \/ Tick
    \/ \E w \in Workers :
          \/ EventsStep(w, OneEvent, NoFailure)
          \/ Finally(w)

SpecLock == Init /\ [][NextLock]_vars

\* A request that adds a chore, beside the chores work units the manual
\* refresh starts.
NextAddChore ==
    \/ \E title \in {"Ann", "Bob"} : AddChoreRoute(title, "dishes")
    \/ RefreshTasks
    \/ \E w \in Workers :
          \/ \E google_task \in {NoTask, [id |-> NewRemoteId]} :
                CreateChore(w, google_task)
          \/ RebindChore(w)
          \/ ClaimTasks(w)
          \/ \E l \in RemoteLists : GetChores(w, l)
          \/ CompareChores(w)
          \/ AddChoresSelect(w)
          \/ AddChoresWrite(w)
          \/ UpdateTasksStatus(w)
          \/ Finally(w)

SpecAddChore == Init /\ [][NextAddChore]_vars

\* ------------------------------------------------- the month partitions
\* The months whose pages are viewed side by side.
ViewMonths == {5, 6}

\* The months the span of a remote event overlaps: e1 lies within May, e2
\* runs from May into June.
SpanOf(e) == IF e = "e1" THEN {5} ELSE {5, 6}

\* events().list(timeMin, timeMax) in get_events_current_month: the events of
\* the remote calendars that overlap the month.
InWindow(remote, month) == {e \in remote : month \in SpanOf(e)}

\* The fetch of a work unit, authenticated and with every listing answered:
\* the snapshot is the whole content of the month's window.
FetchMonth(w, remote) == FetchEvents(w, InWindow(remote, unit[w].month), TRUE, {})

\* get_all_events_for_month_range: the stored rows whose span overlaps the
\* month, whatever month_id they carry, ordered by start.
GetAllEventsForMonthRange(year, month) ==
    Ordered(EventSeq, {e \in DOMAIN db_events : month \in SpanOf(e)})

\* The events store under the reconciliations of two months, each against the
\* whole content of its window.
NextPartitions ==
    \/ \E month \in ViewMonths, year \in Years : RefreshCalendar(month, year)
    \/ \E w \in Workers :
          \/ ClaimEvents(w)
          \/ AddMonth(w)
          \/ \E remote \in SUBSET EventIds : FetchMonth(w, remote)
          \/ CreateCalendarEvents(w)
          \/ CleanupDeletedEvents(w)
          \/ AddEvents(w)
          \/ UpdateEventsStatus(w)
          \/ Finally(w)

SpecPartitions == Init /\ [][NextPartitions]_vars

\* ------------------------------------------------------------ properties
\* A work unit is in flight from its write of status "running" to its final
\* status write in the finally block.
InFlight(w) ==
    /\ unit[w].kind \in {"events", "tasks"}
    /\ pc[w] \notin {"idle", "spawned"}

\* The threads started for a key that have not yet entered their first lock
\* block, by the trigger that started them.
Started(task_id, triggers) ==
    {w \in Workers : /\ pc[w] = "spawned"
                     /\ unit[w].task_id = task_id
                     /\ unit[w].via \in triggers}

\* C1: at most one reconciliation work unit per partition key is in flight
\* (between its write of status running and its final status write) at any
\* time, work units that end in error included.
C1_MutualExclusion ==
    \A w1, w2 \in Workers :
        (InFlight(w1) /\ InFlight(w2) /\ unit[w1].task_id = unit[w2].task_id)
            => w1 = w2

\* C2: when no record exists for a partition key, of the callers that invoke
\* should_start for it at most one receives true: while the record is absent
\* at most one thread has been started by a page view that saw no record.
C2_SingleFlight ==
    \A month \in Months, year \in Years :
        TaskId(month, year) \notin DOMAIN background_tasks
            => Cardinality(Started(TaskId(month, year),
                                   {[by |-> "view", saw |-> "absent"]})) <= 1

\* C3: a stale refresh fires once: while a partition is pending_refresh, the
\* page views and polls that found it complete and stale, or already
\* pending_refresh, have started at most one thread for it.
C3_StaleRefreshOnce ==
    \A month \in Months, year \in Years :
        StatusOf(TaskId(month, year)) = "pending_refresh"
            => Cardinality(Started(TaskId(month, year),
                   {[by |-> b, saw |-> st] :
                        b \in {"view", "poll"},
                        st \in {"complete", "pending_refresh"}})) <= 1

\* The ids of the events stored under a month.
StoredIds(rows, month_id) == {e \in DOMAIN rows : rows[e].month_id = month_id}

MonthOf(w) == MonthId(unit[w].month, unit[w].year)

\* No other work unit of the same key is in flight.
Alone(w) ==
    \A v \in Workers \ {w} : ~(InFlight(v) /\ unit[v].task_id = unit[w].task_id)

\* C4: reconciling the same remote snapshot twice for a month yields
\* events_changed = false on the second pass: a pass that ran alone and
\* fetched the snapshot last reconciled for its month reports no change.
C4_Idempotence ==
    \A w \in Workers :
        (pc[w] = "flags" /\ unit[w].kind = "events" /\ unit[w].again /\ Alone(w))
            => ~unit[w].events_changed

\* C5: after reconciling a month against a non-empty snapshot S the ids
\* stored under the month are the ids of S: the deletion step removes every
\* stored id absent from S and records deleted exactly when there was one,
\* and the pass then reports events_changed = true.
C5_DeletionCorrectness ==
    [][\A w \in Workers :
          /\ CleanupDeletedEvents(w) =>
                /\ StoredIds(db_events', MonthOf(w)) =
                       StoredIds(db_events, MonthOf(w)) \cap unit[w].data
                /\ unit'[w].deleted =
                       (StoredIds(db_events, MonthOf(w)) \ unit[w].data # {})
          /\ AddEvents(w) =>
                /\ StoredIds(db_events', MonthOf(w)) = unit[w].data
                /\ unit[w].deleted => unit'[w].events_changed]_vars

\* C6: when the fetch fails and the adapter yields an empty snapshot, the
\* pass runs neither the deletion step nor any other store step: it goes
\* from the fetch to the status update, leaves every stored event as it is,
\* and records events_changed = false.
C6_EmptySnapshotKeepsStore ==
    /\ [](\A w \in Workers :
             pc[w] \in {"calendars", "cleanup", "upsert"} => unit[w].data # {})
    /\ [][\A w \in Workers :
             /\ (pc[w] = "fetch" /\ pc'[w] \notin {"fetch", "except"}
                 /\ unit'[w].data = {})
                   => /\ pc'[w] = "flags"
                      /\ ~unit'[w].events_changed
                      /\ db_events' = db_events
             /\ (pc[w] = "flags" /\ unit[w].kind = "events"
                 /\ unit[w].data = {} /\ pc'[w] = "finally")
                   => /\ background_tasks'[unit[w].task_id]["events_changed"] = FALSE
                      /\ db_events' = db_events]_vars

\* A stored event outlives a pass whose fetch failed while the remote source
\* held events: the pass is about to record its outcome.
C6_Witness ==
    \E w \in Workers :
        /\ pc[w] = "flags" /\ unit[w].kind = "events"
        /\ unit[w].data = {} /\ unit[w].remote # {}
        /\ StoredIds(db_events, MonthOf(w)) # {}

\* C7: reconciliation never deletes a stored event that still exists in the
\* remote source, also when the listing of one calendar fails while other
\* calendars return events.
C7_NoDeleteOfRemoteEvent ==
    [][\A w \in Workers :
          CleanupDeletedEvents(w) =>
              (DOMAIN db_events \ DOMAIN db_events') \cap unit[w].remote = {}]_vars

\* The ids of a list of chores.
IdsOf(chores) == {chores[i].id : i \in DOMAIN chores}

\* C8: a chore whose stored status is invisible is never overwritten by a
\* remote chore of the same id, by a chores reconciliation or by a foreground
\* refresh, and it does not count toward chores_changed: a comparison that
\* reports a change has fetched a chore that is not invisible.
C8_InvisibleSuppression ==
    [][\A w \in Workers :
          /\ AddChoresWrite(w) =>
                \A x \in Invisible : db_chores'[x] = db_chores[x]
          /\ CompareChores(w) =>
                /\ IdsOf(unit'[w].to_write) \cap Invisible = {}
                /\ unit'[w].chores_changed =>
                       IdsOf(unit[w].to_write) \ Invisible # {}]_vars

\* C9: a poll that reports events_changed or chores_changed = true found the
\* flag set and leaves it, and updated, false in the same critical section,
\* so that a poll made next reports false.
C9_ReadAndClear ==
    [][\A month \in Months, year \in Years :
          Poll(month, year) =>
            /\ resp'.events_changed =>
                  /\ background_tasks[TaskId(month, year)]["events_changed"]
                  /\ ~background_tasks'[TaskId(month, year)]["events_changed"]
                  /\ ~background_tasks'[TaskId(month, year)]["updated"]
                  /\ ~CheckCalendarTaskStatus(TaskId(month, year))'.events_changed
            /\ resp'.chores_changed =>
                  /\ background_tasks[TasksId]["chores_changed"]
                  /\ ~background_tasks'[TasksId]["chores_changed"]
                  /\ ~background_tasks'[TasksId]["updated"]
                  /\ ~CheckChoresTaskStatus(TasksId)'.chores_changed]_vars

\* The last poll reported both changes and both flags are cleared.
C9_Witness ==
    /\ resp.calendar_status = "complete" /\ resp.chores_status = "complete"
    /\ resp.events_changed /\ resp.chores_changed
    /\ \E month \in Months, year \in Years :
          /\ StatusOf(TaskId(month, year)) \in {"complete", "pending_refresh"}
          /\ ~background_tasks[TaskId(month, year)]["events_changed"]
    /\ StatusOf(TasksId) = "complete"
    /\ ~background_tasks[TasksId]["chores_changed"]

\* The change flag of a kind of work unit.
FlagOf(kind) == IF kind = "events" THEN "events_changed" ELSE "chores_changed"

\* C10: an except block leaves the record with status error and with updated
\* and the change flag false; a poll of a record in error reports the status
\* error and no change for it, and no update at all when no other record
\* has one.
C10_ErrorReportsNoChange ==
    [][/\ \A w \in Workers :
             (ExceptEvents(w) \/ ExceptTasks(w)) =>
                 LET rec == background_tasks'[unit[w].task_id] IN
                 /\ rec["status"] = "error"
                 /\ rec["updated"] = FALSE
                 /\ Get(rec, FlagOf(unit[w].kind), TRUE) = FALSE
       /\ \A month \in Months, year \in Years :
             Poll(month, year) =>
               /\ StatusOf(TaskId(month, year)) = "error" =>
                     /\ resp'.calendar_status = "error"
                     /\ ~resp'.events_changed
               /\ StatusOf(TasksId) = "error" =>
                     /\ resp'.chores_status = "error"
                     /\ ~resp'.chores_changed
               /\ (StatusOf(TaskId(month, year)) = "error"
                   /\ StatusOf(TasksId) = "error") =>
                     ~resp'.updates_available]_vars

\* The last poll reported error for both records, and the record of the
\* month is in error while it carries a change flag written by an
\* overlapping work unit.
C10_Witness ==
    /\ resp.calendar_status = "error" /\ resp.chores_status = "error"
    /\ ~resp.updates_available
    /\ StatusOf(TasksId) = "error"
    /\ \E month \in Months, year \in Years :
          /\ StatusOf(TaskId(month, year)) = "error"
          /\ Get(background_tasks[TaskId(month, year)], "events_changed", FALSE)

\* The calls of a work-unit function for a key that have not returned.
CallsOf(task_id) ==
    {w \in Workers : pc[w] # "idle" /\ unit[w].kind \in {"events", "tasks"}
                     /\ unit[w].task_id = task_id}

\* C11: completion always executes: no partition stays running after its
\* work unit has exited, so a record with status running has a work unit
\* that has been called for its key and has not returned.
C11_NoRunningWithoutUnit ==
    \A task_id \in DOMAIN background_tasks :
        background_tasks[task_id]["status"] = "running"
            => CallsOf(task_id) # {}

\* C16: a request that names a month outside 1-12 is rejected at the request
\* boundary: for such a month there is no registry record, no row of
\* CalendarMonth and no work unit, started or running.
C16_InvalidMonthRejected ==
    \A month \in RequestMonths, year \in Years :
        ~ValidMonth(month) =>
            /\ TaskId(month, year) \notin DOMAIN background_tasks
            /\ MonthId(month, year) \notin db_months
            /\ \A w \in Workers :
                  unit[w].kind = "events" => unit[w].task_id # TaskId(month, year)

\* A step of a manual refresh endpoint for a key, accepted or rejected.
ManualRefresh(task_id) ==
    \/ /\ task_id = TasksId
       /\ RefreshTasks \/ RefreshTasksRejected \/ RefreshChores
            \/ RefreshChoresRejected
    \/ \E month \in Months, year \in Years :
          /\ task_id = TaskId(month, year)
          /\ RefreshCalendar(month, year) \/ RefreshCalendarRejected(month, year)

\* C12: a manual refresh request for a partition whose status is running is
\* answered 202 with an "already in progress" message, starts no work unit
\* and leaves the registry unchanged.
C12_RefreshRejectedWhileRunning ==
    [][\A task_id \in DOMAIN background_tasks :
          (background_tasks[task_id]["status"] = "running"
           /\ ManualRefresh(task_id))
              => /\ UNCHANGED <<background_tasks, pc, unit>>
                 /\ "code" \in DOMAIN resp'
                 /\ resp'.code = 202
                 /\ resp'.message \in {"Calendar refresh already in progress",
                                       "Tasks refresh already in progress",
                                       "Refresh already in progress"}]_vars

\* A manual refresh has just been rejected for a running partition whose
\* work unit is at work.
C12_Witness ==
    /\ "code" \in DOMAIN resp
    /\ resp.message = "Calendar refresh already in progress"
    /\ \E w \in Workers : InFlight(w) /\ pc[w] = "fetch"
                          /\ StatusOf(unit[w].task_id) = "running"

\* The calendars that hold the colour at a position of the palette.
Coloured(position) ==
    {c \in DOMAIN db_calendars : db_calendars[c].color = DEFAULT_COLORS[position]}

\* C13: colours are assigned round-robin with a growing cursor: the cursor
\* counts the calendars created without a colour, and the k-th of them
\* (from 0) holds palette[k mod n].
C13_RoundRobinColours ==
    /\ color_index = Cardinality(DOMAIN db_calendars)
    /\ \A position \in 1..Len(DEFAULT_COLORS) :
          Cardinality(Coloured(position)) =
              Cardinality({k \in 0..(color_index - 1) :
                              (k % Len(DEFAULT_COLORS)) + 1 = position})

\* The views that have computed the events of their day.
Rendered == {w \in Workers : pc[w] = "rendered"}

\* The rule of day relevance: the day is the date of a single-day event, or
\* lies in [start date, end date] of a multi-day event and is not the end
\* date of one that ends at 00:00:00.
RelevantByRule(event, day) ==
    LET first == event.start_datetime.date
        last == event.end_datetime.date
    IN IF first = last THEN day = first
       ELSE /\ first <= day /\ day <= last
            /\ ~(day = last /\ event.end_datetime.time = Midnight)

\* C14: an event of the input is listed for a day exactly when the rule of
\* day relevance holds for it: a single-day event on its date, a multi-day
\* event on every day from its start date to its end date, the end date
\* left out when it ends at 00:00:00.
C14_DayRelevance ==
    \A w \in Rendered :
        \A i \in DOMAIN unit[w].db_events :
            (\E j \in DOMAIN unit[w].today_events :
                 unit[w].today_events[j] = unit[w].db_events[i])
                <=> RelevantByRule(unit[w].db_events[i], unit[w].today_date)

\* A view of the 16th over a timed event from the 14th 10:00 to the 16th
\* 10:00, which is listed, and an all-day event from the 15th to the 16th
\* 00:00, which is not.
C14_Witness ==
    \E w \in Rendered :
        LET spanning == [start_datetime |-> [date |-> 14, time |-> <<10, 0, 0>>],
                         end_datetime |-> [date |-> 16, time |-> <<10, 0, 0>>],
                         all_day |-> FALSE]
            all_day == [start_datetime |-> [date |-> 15, time |-> Midnight],
                        end_datetime |-> [date |-> 16, time |-> Midnight],
                        all_day |-> TRUE]
        IN /\ unit[w].today_date = 16
           /\ unit[w].db_events = <<all_day, spanning>>
           /\ unit[w].today_events = <<spanning>>

\* How often an event occurs in a list.
Count(event, events) == Cardinality({i \in DOMAIN events : events[i] = event})

\* C15: the events listed for a day are the relevant events of the input,
\* each as often as the input holds it, all-day events before timed events
\* and timed events in ascending order of their start.
C15_FilterAndOrder ==
    \A w \in Rendered :
        LET events == unit[w].db_events
            day_events == unit[w].today_events
        IN /\ \A event \in StoredEvents :
                 Count(event, day_events) =
                     IF IsEventRelevantForDate(event, unit[w].today_date)
                     THEN Count(event, events) ELSE 0
           /\ \A i, j \in DOMAIN day_events :
                 i < j =>
                     /\ day_events[j].all_day => day_events[i].all_day
                     /\ (~day_events[i].all_day /\ ~day_events[j].all_day)
                            => ~Before(day_events[j].start_datetime,
                                       day_events[i].start_datetime)

\* A view of the 15th over a later timed event, an all-day event and an
\* earlier timed event, listed as all-day, earlier, later.
C15_Witness ==
    \E w \in Rendered :
        /\ Len(unit[w].today_events) = 3
        /\ unit[w].today_date = 15
        /\ ~unit[w].db_events[1].all_day
        /\ unit[w].db_events[2].all_day
        /\ Before(unit[w].db_events[3].start_datetime,
                  unit[w].db_events[1].start_datetime)
        /\ unit[w].today_events =
               <<unit[w].db_events[2], unit[w].db_events[3], unit[w].db_events[1]>>

\* The partitions of the registry: the months and the chores.
Partitions == {TaskId(month, year) : month \in Months, year \in Years} \cup {TasksId}

\* The should-start check the view makes for a partition.
ShouldStart(task_id) ==
    IF task_id = TasksId THEN ShouldStartChores ELSE ShouldStartCalendar(task_id)

\* The registry the should-start check of a partition leaves.
AfterShouldStart(task_id) ==
    IF task_id = TasksId THEN background_tasks ELSE ClaimStale(task_id)

\* C17: should_start of a partition is true exactly when the partition has
\* no record, or its status is neither running nor complete, or its status
\* is complete and now - last_update_time exceeds the sync interval; when it
\* is false the registry is left as it was.
C17_ShouldStartRule ==
    \A task_id \in Partitions :
        /\ ShouldStart(task_id) <=>
              \/ task_id \notin DOMAIN background_tasks
              \/ StatusOf(task_id) \notin {"running", "complete"}
              \/ /\ StatusOf(task_id) = "complete"
                 /\ now - Get(background_tasks[task_id], "last_update_time", 0)
                        > sync_interval_minutes
        /\ ~ShouldStart(task_id) => AfterShouldStart(task_id) = background_tasks

\* The record of a key is complete and carries its change flag.
CompleteWith(task_id, flag) ==
    /\ StatusOf(task_id) = "complete"
    /\ Get(background_tasks[task_id], flag, FALSE)

\* C18: a poll reports updates_available only when the record of the month
\* or of the chores is complete with its change flag set; for a key without
\* record it reports not_tracked and no change, for a running key running
\* and no change, for a complete key without flag complete and no change.
C18_PollReport ==
    [][\A month \in Months, year \in Years :
          Poll(month, year) =>
            LET calendar == TaskId(month, year) IN
            /\ resp'.updates_available =>
                  \/ CompleteWith(calendar, "events_changed")
                  \/ CompleteWith(TasksId, "chores_changed")
            /\ StatusOf(calendar) = "absent" =>
                  resp'.calendar_status = "not_tracked" /\ ~resp'.events_changed
            /\ StatusOf(TasksId) = "absent" =>
                  resp'.chores_status = "not_tracked" /\ ~resp'.chores_changed
            /\ StatusOf(calendar) = "running" =>
                  resp'.calendar_status = "running" /\ ~resp'.events_changed
            /\ StatusOf(TasksId) = "running" =>
                  resp'.chores_status = "running" /\ ~resp'.chores_changed
            /\ (StatusOf(calendar) = "complete"
                /\ ~CompleteWith(calendar, "events_changed")) =>
                  resp'.calendar_status = "complete" /\ ~resp'.events_changed
            /\ (StatusOf(TasksId) = "complete"
                /\ ~CompleteWith(TasksId, "chores_changed")) =>
                  resp'.chores_status = "complete" /\ ~resp'.chores_changed]_vars

\* The last poll found the chores running while their record carried the
\* change flag of a finished pass, and reported no update.
C18_Witness ==
    /\ resp.calendar_status = "not_tracked"
    /\ resp.chores_status = "running"
    /\ ~resp.updates_available
    /\ StatusOf(TasksId) = "running"
    /\ Get(background_tasks[TasksId], "chores_changed", FALSE)

\* C19: no request waits for remote I/O: a chores work unit that is at its
\* remote fetch runs in a thread of its own, not inside the page view or
\* manual refresh that triggered it.
C19_RequestNeverAwaitsUnit ==
    \A w \in Workers :
        (unit[w].kind = "tasks" /\ pc[w] = "get_chores") => unit[w].threaded

\* The colours of the palette.
Palette == {DEFAULT_COLORS[k] : k \in DOMAIN DEFAULT_COLORS}

\* C20: a reconciliation of a non-empty snapshot for a month into an empty
\* store creates one calendar row for each calendar id of the snapshot, each
\* with a colour of the palette, and one event row for each event id of the
\* snapshot under the id of the month, and it reports events_changed = true.
C20_ReconcileIntoEmptyStore ==
    [][\A w \in Workers :
          /\ (CreateCalendarEvents(w) /\ db_calendars = Empty) =>
                /\ DOMAIN db_calendars' = {CalOf(e) : e \in unit[w].data}
                /\ \A c \in DOMAIN db_calendars' :
                      /\ db_calendars'[c].name = CalName(c)
                      /\ db_calendars'[c].color \in Palette
                /\ color_index' = color_index + Cardinality(DOMAIN db_calendars')
          /\ (AddEvents(w) /\ db_events = Empty) =>
                /\ DOMAIN db_events' = unit[w].data
                /\ \A e \in DOMAIN db_events' :
                      /\ db_events'[e].month_id = MonthOf(w)
                      /\ db_events'[e].calendar_id \in DOMAIN db_calendars
                /\ unit'[w].events_changed
          /\ (UpdateEventsStatus(w) /\ unit[w].data # {}) =>
                /\ background_tasks'[unit[w].task_id]["events_changed"]
                /\ background_tasks'[unit[w].task_id]["updated"]]_vars

\* A pass that ran alone has created both calendars and stored both events
\* of its snapshot and deleted nothing, and is about to report the change.
C20_Witness ==
    \E w \in Workers :
        /\ pc[w] = "flags" /\ unit[w].kind = "events" /\ Alone(w)
        /\ unit[w].data = EventIds
        /\ unit[w].calendars_changed /\ ~unit[w].deleted /\ ~unit[w].again
        /\ unit[w].events_changed
        /\ DOMAIN db_calendars = CalendarIds
        /\ color_index = Cardinality(CalendarIds)
        /\ DOMAIN db_events = EventIds

\* C21: the remote adapter never raises to its caller: a call of the events
\* adapter or of the chores adapter that has ended has returned a value,
\* whatever the state of the token file, of the service and of the task list.
C21_AdapterNeverRaises ==
    \A w \in Workers :
        (pc[w] = "called" /\ unit[w].kind = "adapter") => ~unit[w].outcome.raised

\* The timestamp a start or end object must be given.
ExpectedTimestamp(google_date_obj) == IF google_date_obj.ok THEN "parsed" ELSE "min"

\* C22: a malformed timestamp in a remote record, in a dateTime field or in
\* a date-only field, neither raises nor drops the batch: every record of the
\* batch is returned, a malformed field with the minimum timestamp.
C22_MalformedTimestampKeepsBatch ==
    \A w \in Workers :
        (pc[w] = "called" /\ unit[w].kind = "adapter"
         /\ unit[w].call = "call_process_events") =>
            LET batch == unit[w].batch
                outcome == unit[w].outcome
            IN /\ ~outcome.raised
               /\ Len(outcome.value) = Len(batch)
               /\ \A i \in DOMAIN batch :
                     /\ outcome.value[i].id = batch[i].id
                     /\ outcome.value[i].start_datetime =
                            ExpectedTimestamp(batch[i].start)
                     /\ outcome.value[i].end_datetime =
                            ExpectedTimestamp(batch[i].end)

\* The status changes of the registry state machine.
Transitions ==
    {<<"absent", "running">>, <<"running", "complete">>, <<"running", "error">>,
     <<"complete", "pending_refresh">>, <<"pending_refresh", "running">>,
     <<"error", "running">>}

\* C23: every status change of a partition record is a transition of the
\* registry state machine: absent -> running, running -> complete,
\* running -> error, complete -> pending_refresh, pending_refresh -> running,
\* error -> running, and no other.
C23_StateMachine ==
    [][\A task_id \in Partitions :
          StatusOf(task_id)' # StatusOf(task_id)
              => <<StatusOf(task_id), StatusOf(task_id)'>> \in Transitions]_vars

\* C24: the registry entry is made running inside the critical section of
\* the should-start check: whenever a trigger has decided to start a work
\* unit for a partition and has released the lock (the thread is started and
\* has not yet entered its first lock block) the record of the partition
\* exists with status running.
C24_RunningBeforeStart ==
    \A w \in Workers :
        (pc[w] = "spawned" /\ unit[w].kind \in {"events", "tasks"})
            => StatusOf(unit[w].task_id) = "running"

\* The steps of an events work unit, each with the steps that may follow it:
\* the try block of lines 26-57, then the finally block.
StepOrder ==
    {<<"add_month", "fetch">>, <<"fetch", "calendars">>, <<"fetch", "flags">>,
     <<"calendars", "cleanup">>, <<"cleanup", "upsert">>, <<"cleanup", "flags">>,
     <<"upsert", "flags">>, <<"flags", "finally">>, <<"except", "finally">>,
     <<"finally", "idle">>}

\* The step of a work unit that raised: the except block follows.
Aborted(w) == pc'[w] = "except"

Stepped(w, from, to) == pc[w] = from /\ pc'[w] \in to

\* The rows the step has written for the events work unit w, and the stored
\* ids the step has removed.
WrittenRows(w) ==
    {e \in DOMAIN db_events' :
        /\ \E i \in DOMAIN unit[w].events_to_add : unit[w].events_to_add[i] = e
        /\ db_events'[e].month_id = MonthId(unit[w].month, unit[w].year)}
RemovedIds == DOMAIN db_events \ DOMAIN db_events'

Resolved == {w \in Workers : pc[w] = "resolved" /\ unit[w].kind = "resolve"}
Unseen(w, r) == r.calendar_id \notin DOMAIN unit[w].before
NameDiffers(w, r) ==
    ~Unseen(w, r) /\ unit[w].before[r.calendar_id].name # r.calendar_name

\* C27: the calendar resolution sets calendars_changed exactly when the
\* calendar of some remote event is unseen in the store or stored under
\* another name than the remote one; no row is written for a calendar that
\* exists unchanged; on a name change the name is updated and the stored
\* colour is kept.  Stated for the passes in which no store call fails.
C27_CalendarsChanged ==
    \A w \in Resolved :
        unit[w].fault = NoFault =>
            LET data == unit[w].data IN
            /\ unit[w].calendars_changed <=>
                   \E i \in DOMAIN data : Unseen(w, data[i]) \/ NameDiffers(w, data[i])
            /\ \A i \in DOMAIN data :
                   LET c == data[i].calendar_id IN
                   /\ (~Unseen(w, data[i]) /\ ~NameDiffers(w, data[i]))
                         => c \notin unit[w].written
                   /\ NameDiffers(w, data[i])
                         => /\ db_calendars[c].name = data[i].calendar_name
                            /\ db_calendars[c].color = unit[w].before[c].color

\* C28: the colour of a calendar is assigned on first sight and never
\* changes afterwards, under any sequence of passes, the passes in which a
\* store read or write for the calendar fails included.
C28_ColorAssignedOnce ==
    [][\A c \in DOMAIN db_calendars :
          /\ c \in DOMAIN db_calendars'
          /\ db_calendars'[c].color = db_calendars[c].color]_vars

\* The positions of an id in a batch, and the first of them.
Occurrences(events, id) == {i \in DOMAIN events : events[i].id = id}
FirstOccurrence(events, id) ==
    CHOOSE i \in Occurrences(events, id) :
        \A j \in Occurrences(events, id) : i <= j

C30_RowErrorSkipped ==
    \A w \in Workers :
        pc[w] = "passed" =>
            /\ ~unit[w].raised
            /\ unit[w].kind = "add_events" =>
                  \A i \in DOMAIN unit[w].events :
                      i \notin unit[w].faults =>
                          /\ unit[w].events[i].id \in DOMAIN db_events
                          /\ \E k \in DOMAIN unit[w].written :
                                unit[w].events[unit[w].written[k]].id =
                                    unit[w].events[i].id
            /\ unit[w].kind = "add_chores" =>
                  \A i \in DOMAIN unit[w].chores :
                      LET chore == unit[w].chores[i] IN
                      (i \notin unit[w].faults /\ MayWrite(unit[w].before, chore.id))
                          => /\ chore.id \in DOMAIN db_chores
                             /\ db_chores[chore.id] = ChoreRow(chore)
            /\ unit[w].kind = "cleanup" =>
                  \A e \in unit[w].events_to_delete \ unit[w].faults :
                      e \notin DOMAIN db_events

\* C31: the batch write of the chores checks the status of each row again at
\* write time: when a user has marked chore X invisible while a chores
\* reconciliation that staged X was under way, X is still invisible once the
\* write of that reconciliation has finished, under every interleaving.
C31_InvisibleSurvivesWrite ==
    [][\A w \in Workers :
          (unit[w].kind = "tasks" /\ pc[w] \in {"select", "write"}
           /\ pc'[w] \notin {"select", "write", "except"})
              => \A x \in IdsOf(unit[w].to_write) \cap Invisible :
                     db_chores'[x].status = "invisible"]_vars

\* The chores of a list, and the remote chores a comparison must stage: those
\* not stored as invisible that are absent from the store or differ from the
\* stored chore in title, notes or status.
ChoresOf(chores) == {chores[i] : i \in DOMAIN chores}
MustStage(chores) ==
    {c \in ChoresOf(chores) :
        IF c.id \notin DOMAIN db_chores THEN TRUE
        ELSE /\ db_chores[c.id].status # "invisible"
             /\ \/ db_chores[c.id].title # c.title
                \/ db_chores[c.id].notes # c.notes
                \/ db_chores[c.id].status # c.status}

\* C32: a chores reconciliation stages a remote chore exactly when the chore
\* is not suppressed as invisible and either no stored chore has its id or
\* its (id, title, notes, status) differs from the stored one; chores_changed
\* is true iff at least one chore was staged, and that value is recorded.
C32_StagedExactly ==
    [][\A w \in Workers :
          unit[w].kind = "tasks" =>
             /\ CompareChores(w) =>
                   /\ ChoresOf(unit'[w].to_write) = MustStage(unit[w].to_write)
                   /\ unit'[w].chores_changed <=> (unit'[w].to_write # <<>>)
             /\ UpdateTasksStatus(w) =>
                   background_tasks'[unit[w].task_id]["chores_changed"] =
                       unit[w].chores_changed]_vars

\* A reconciliation that has staged a chore while another chore is stored
\* as invisible.
C32_Witness ==
    \E w \in Workers :
        /\ pc[w] = "select"
        /\ unit[w].kind = "tasks"
        /\ unit[w].chores_changed
        /\ Invisible # {}
        /\ Invisible \cap IdsOf(unit[w].to_write) = {}

\* C33: a manual chores refresh accepted while no chores fetch runs performs
\* a chores reconciliation and leaves the chores record complete or error:
\* when the call refresh_chores makes has returned, the chores partition is
\* not still running (and a later manual refresh is accepted).
C33_RefreshChoresCompletes ==
    [][\A w \in Workers :
          (unit[w].kind = "tasks" /\ unit[w].via.by = "refresh_chores"
           /\ pc[w] = "spawned" /\ pc'[w] = "idle")
              => StatusOf(TasksId)' \in {"complete", "error"}]_vars

\* C34: the chores partition follows the registry mechanics of the month
\* partitions: a chores record that is complete carries the last_update_time
\* its completion stamped, and once it is older than the sync interval the
\* next trigger check starts the chores sync again.
C34_ChoresRetriggered ==
    StatusOf(TasksId) = "complete" =>
        /\ "last_update_time" \in DOMAIN background_tasks[TasksId]
        /\ IsStale(background_tasks[TasksId]) => ShouldStartChores

\* The ids a sequence of query rows holds, each counted as often as it occurs.
Hits(rows, id) == Cardinality({i \in DOMAIN rows : rows[i] = id})

\* C35: event identity is the remote id.  An upsert of a snapshot leaves one
\* row for each of its ids, under the month of that upsert also when the id
\* was stored under another month before, and touches no other row; and the
\* overlap range query of every month returns each stored id of its window
\* once and no id twice.
C35_EventIdentity ==
    [][/\ \A w \in Workers :
            AddEvents(w) =>
               /\ DOMAIN db_events' = DOMAIN db_events \cup unit[w].data
               /\ \A e \in unit[w].data : db_events'[e].month_id = MonthOf(w)
               /\ \A e \in DOMAIN db_events \ unit[w].data :
                      db_events'[e] = db_events[e]
       /\ \A month \in ViewMonths, year \in Years, e \in EventIds :
            Hits(GetAllEventsForMonthRange(year, month)', e) =
               IF e \in DOMAIN db_events' /\ month \in SpanOf(e) THEN 1 ELSE 0]_vars

\* A unit of June has just replaced the row of e2, which a reconciliation
\* of May had written, and both months show it.
C35_Witness ==
    \E w \in Workers :
        /\ pc[w] = "flags" /\ unit[w].kind = "events" /\ unit[w].month = 6
        /\ unit[w].db_changes
        /\ MonthId(5, 2025) \in DOMAIN last_snapshot
        /\ "e2" \in last_snapshot[MonthId(5, 2025)]
        /\ "e2" \in DOMAIN db_events
        /\ db_events["e2"].month_id = MonthId(6, 2025)
        /\ Hits(GetAllEventsForMonthRange(2025, 5), "e2") = 1

\* C38: after a successful reconciliation of month P against a complete
\* remote snapshot, every event the overlap range query returns for P is in
\* that snapshot, also when its row was last written under another month:
\* when the store steps of a unit end while no other unit is at work, the
\* ids shown for its month are ids of its snapshot.
C38_DeletedNotShown ==
    [][\A w \in Workers :
          (unit[w].kind = "events" /\ pc[w] \in {"cleanup", "upsert"}
           /\ pc'[w] = "flags" /\ \A v \in Workers \ {w} : pc[v] = "idle")
              => \A e \in EventIds :
                    Hits(GetAllEventsForMonthRange(unit[w].year, unit[w].month)', e) > 0
                        => e \in unit[w].data]_vars

\* The steps whose writes to the registry lie inside a `with google_fetch_lock`
\* block of the source.
UnderLock ==
    \/ \E w \in Workers :
          \/ ClaimEvents(w) \/ UpdateEventsStatus(w) \/ ExceptEvents(w)
          \/ Finally(w)
          \/ ClaimTasks(w) \/ UpdateTasksStatus(w) \/ ExceptTasks(w)
          \/ RaiseForeground(w)
    \/ \E month \in Months, year \in Years :
          \/ View(month, year)
          \/ Poll(month, year)
    \/ ViewChores
    \/ RefreshChores

\* C36: the task-status map is mutated only under the lock: every step that
\* changes the map, or a record in it, is a step of a locked block.
C36_WritesUnderLock ==
    [][background_tasks' # background_tasks => UnderLock]_vars

\* C37: no change notification is lost: once a work unit of a month has
\* completed with events_changed set, the flag stays set, through a staleness
\* claim and through the start of a new work unit, until a poll of the month
\* reports it; the only step that clears it is a poll answering
\* updates_available.
C37_NoLostNotification ==
    [][\A month \in Months, year \in Years :
          LET task_id == TaskId(month, year) IN
          (/\ StatusOf(task_id) \in {"complete", "pending_refresh"}
           /\ Get(background_tasks[task_id], "events_changed", FALSE)
           /\ ~Get(background_tasks'[task_id], "events_changed", FALSE))
              => Poll(month, year) /\ resp'.updates_available]_vars

\* C39: under concurrent calls of add_calendar for new calendars the
\* persisted colour cursor never decreases and, once every call has finished,
\* equals the number of colours handed out, one for each calendar created.
C39_CursorMonotone ==
    [][/\ color_index' >= color_index
       /\ (\A w \in Workers : pc'[w] = "idle")
             => color_index' = Cardinality(DOMAIN db_calendars')]_vars

\* C40: after the add-chore flow has completed with a remote id, the store
\* holds exactly one row for the new chore, keyed by the remote id, whatever
\* a concurrent chores reconciliation has done in between.
C40_OneRowAfterAdd ==
    ("id" \in DOMAIN resp /\ resp.id = NewRemoteId)
        => /\ NewRemoteId \in DOMAIN db_chores
           /\ LocalChoreId \notin DOMAIN db_chores

====
